---- MODULE Spec2Model ----
(***************************************************************************)
(* A model of cargo-quad-apk's build back end:                             *)
(*   - the compile invocation hook SharedLibraryExecutor::exec and the     *)
(*     shared-library resolver loop it contains (src/ops/build/compile.rs) *)
(*   - the glue templater parse_inject_template / Inject::add              *)
(*     (src/ops/build/preprocessor.rs)                                     *)
(*   - build_manifest and build_apks (src/ops/build.rs)                    *)
(*   - find_ndk_path (src/ops/build/util.rs)                               *)
(*                                                                         *)
(* Strings that the code only compares are atomic strings.  A command      *)
(* argument and a path are sequences of path components, so that           *)
(* Path::file_name and Path::set_file_name act on the last component.      *)
(***************************************************************************)
EXTENDS Integers, Sequences, FiniteSets, TLC

(***************************************************************************)
(* Bounds of the model                                                     *)
(***************************************************************************)
\* number of entries of config.build_targets
NumArchs == 2
\* a command line is made of at most MaxItems items (a flag with its value, or a lone argument)
MaxItems == 2

(***************************************************************************)
(* The inputs of the hook                                                  *)
(***************************************************************************)
None == "None"

\* config.build_targets, android_abi() of each
BuildTargets == <<"arm64-v8a", "armeabi-v7a", "x86", "x86_64">>

\* the cargo targets of the workspace: kind() and name()
Targets ==
    { [kind |-> "Bin", name |-> "app"],
      [kind |-> "ExampleBin", name |-> "demo"],
      [kind |-> "Lib", name |-> "dep"] }

\* the CompileMode values the hook tells apart, and one it does not
CompileModes == {"Build", "Test", "Check"}

\* target.src_path(), canonicalized
SrcPath(target) ==
    CASE target.name = "app"  -> <<"proj", "src", "main.rs">>
      [] target.name = "demo" -> <<"proj", "examples", "demo", "main.rs">>
      [] OTHER                -> <<"proj", "dep", "lib.rs">>

\* one-component argument
Arg(s) == <<s>>

\* what a rustc command line is made of: a flag followed by its value, or a lone argument
CmdItems ==
    { <<Arg("--crate-type"), Arg("bin")>>,
      <<Arg("--crate-type"), Arg("cdylib")>>,
      <<Arg("--out-dir"), <<"target", "deps">> >>,
      << <<"src", "main.rs">> >>,
      <<Arg("-L"), <<"dependency=", "d1">> >>,
      <<Arg("-L"), <<"..">> >> }

RECURSIVE Flatten(_)
Flatten(items) ==
    IF items = <<>> THEN <<>> ELSE Head(items) \o Flatten(Tail(items))

\* cmd.get_args() of the commands cargo hands to the hook
CmdLines ==
    { Flatten(items) : items \in UNION { [1..n -> CmdItems] : n \in 1..MaxItems } }

\* names that may show up as NEEDED entries or in the platform library directory
DylibNames == {"libdep.so", "liblog.so", "libapp.so"}

\* format!("lib{}.so", target.name())
LibFileName(name) ==
    CASE name = "app"  -> "libapp.so"
      [] name = "demo" -> "libdemo.so"
      [] OTHER         -> "libdep.so"

\* Path::file_name is Some: the path does not end in `..`
HasFileName(path) == path # <<>> /\ path[Len(path)] # ".."

\* Path::file_name().unwrap()
FileName(path) == path[Len(path)]

\* PathBuf::set_file_name
SetFileName(path, name) == [path EXCEPT ![Len(path)] = name]

\* format!("__cargo_apk_{}.tmp", file_stem)
TmpFileName(filename) ==
    CASE filename = "main.rs" -> "__cargo_apk_main.tmp"
      [] OTHER                -> "__cargo_apk_lib.tmp"

(***************************************************************************)
(* Pure parts of SharedLibraryExecutor::exec                               *)
(***************************************************************************)
\* new_args.iter_mut().find_map(..) (lines 191-200): index of the first argument
\* whose file name is the source file name, 0 when there is none, -1 when the
\* closure comes first to an argument without a file name and its unwrap panics
FindSourceArg(new_args, filename) ==
    LET Stops(i) == ~HasFileName(new_args[i]) \/ FileName(new_args[i]) = filename
    IN  IF \E i \in 1..Len(new_args) : Stops(i)
        THEN LET first == CHOOSE i \in 1..Len(new_args) :
                            Stops(i) /\ \A j \in 1..(i - 1) : ~Stops(j)
             IN  IF HasFileName(new_args[first]) THEN first ELSE -1
        ELSE 0

\* TempFile::new(path, write): the file is there when it has returned Ok
TempFileNew(files, path) == files \cup {path}

\* TempFile's Drop: the file is removed
TempFileDrop(files, path) == files \ {path}

\* the temporary source file of a unit: beside the unit's source file
TmpFilePath(target) == SetFileName(SrcPath(target), TmpFileName(FileName(SrcPath(target))))

\* TmpFileScopeEnd that leaks the binding
TmpFileScopeEndLeaks(files, target) == files

\* the binding tmp_file (line 179) lives to the end of the primary branch
\* (line 392): it is dropped when the branch is left, by a return, a `?` or a
\* panic
TmpFileScopeEnd(files, target) == TempFileDrop(files, TmpFilePath(target))

\* the source argument keeps its directory and takes the temporary file's name
ReplaceSourceArg(new_args, i, tmp_name) ==
    [new_args EXCEPT ![i] = SetFileName(new_args[i], tmp_name)]

\* build_target_dir.join("build")
BuildPath(abi) == <<abi, "build">>

\* RewriteBinArgs without the bin -> cdylib branch: only --out-dir is rewritten
RECURSIVE RewriteBinArgsOutDirOnly(_, _, _)
RewriteBinArgsOutDirOnly(new_args, i, build_path) ==
    IF i < 1 THEN new_args
    ELSE IF i > 1 /\ new_args[i - 1] = Arg("--out-dir")
         THEN RewriteBinArgsOutDirOnly([new_args EXCEPT ![i] = build_path], i - 1, build_path)
    ELSE RewriteBinArgsOutDirOnly(new_args, i - 1, build_path)

\* the loop over new_args.iter_mut().rev().peekable(): arg is new_args[i],
\* prev_arg is new_args[i - 1], not yet visited
RECURSIVE RewriteBinArgs(_, _, _)
RewriteBinArgs(new_args, i, build_path) ==
    IF i < 1 THEN new_args
    ELSE IF i > 1 /\ new_args[i - 1] = Arg("--crate-type") /\ new_args[i] = Arg("bin")
         THEN RewriteBinArgs([new_args EXCEPT ![i] = Arg("cdylib")], i - 1, build_path)
    ELSE IF i > 1 /\ new_args[i - 1] = Arg("--out-dir")
         THEN RewriteBinArgs([new_args EXCEPT ![i] = build_path], i - 1, build_path)
    ELSE RewriteBinArgs(new_args, i - 1, build_path)

\* RewriteLibArgs that rewrites nothing
RewriteLibArgsIdentity(new_args, i) == new_args

\* RewriteLibArgs that turns the value of every --crate-type into rlib
RECURSIVE RewriteLibArgsAnyKind(_, _)
RewriteLibArgsAnyKind(new_args, i) ==
    IF i < 1 THEN new_args
    ELSE IF i > 1 /\ new_args[i - 1] = Arg("--crate-type")
         THEN RewriteLibArgsAnyKind([new_args EXCEPT ![i] = Arg("rlib")], i - 1)
    ELSE RewriteLibArgsAnyKind(new_args, i - 1)

\* the same loop of the non-primary Build branch: cdylib becomes rlib
RECURSIVE RewriteLibArgs(_, _)
RewriteLibArgs(new_args, i) ==
    IF i < 1 THEN new_args
    ELSE IF i > 1 /\ new_args[i - 1] = Arg("--crate-type") /\ new_args[i] = Arg("cdylib")
         THEN RewriteLibArgs([new_args EXCEPT ![i] = Arg("rlib")], i - 1)
    ELSE RewriteLibArgs(new_args, i - 1)

\* sysroot/usr/lib/<ndk triple>
VersionIndependentLibrariesPath(abi) == <<"sysroot", abi>>

\* the directory find_ndk_path returns for the platform version
VersionSpecificLibrariesPath(abi) == <<"sysroot", abi, "api">>

\* LinkerArgs that strips whenever stripping is not disabled
LinkerArgsStripsDebug(abi, is_nostrip, is_release) ==
    << <<"-Clinker=", "toolroot", "bin", "ld">>,
       Arg("-Clinker-flavor=ld"),
       <<"-Clink-arg=--sysroot=", "sysroot">>,
       <<"-Clink-arg=-L">> \o VersionSpecificLibrariesPath(abi),
       <<"-Clink-arg=-L">> \o VersionIndependentLibrariesPath(abi),
       <<"-Clink-arg=-L">> \o BuildPath(abi) \o <<"_libgcc_">>,
       <<"-Clink-arg=-L", "libunwind">> >>
    \o (IF is_nostrip = FALSE THEN <<Arg("-Clink-arg=-strip-all")>> ELSE <<>>)
    \o <<Arg("-Crelocation-model=pic")>>

\* the arguments pushed after the original ones
LinkerArgs(abi, is_nostrip, is_release) ==
    << <<"-Clinker=", "toolroot", "bin", "ld">>,
       Arg("-Clinker-flavor=ld"),
       <<"-Clink-arg=--sysroot=", "sysroot">>,
       <<"-Clink-arg=-L">> \o VersionSpecificLibrariesPath(abi),
       <<"-Clink-arg=-L">> \o VersionIndependentLibrariesPath(abi),
       <<"-Clink-arg=-L">> \o BuildPath(abi) \o <<"_libgcc_">>,
       <<"-Clink-arg=-L", "libunwind">> >>
    \o (IF is_nostrip = FALSE /\ is_release THEN <<Arg("-Clink-arg=-strip-all")>> ELSE <<>>)
    \o <<Arg("-Crelocation-model=pic")>>

\* PrimaryArgs that puts the linker arguments in front of the original ones
PrimaryArgsPrepends(args, src_index, tmp_name, abi, is_nostrip, is_release) ==
    LET replaced == ReplaceSourceArg(args, src_index, tmp_name)
    IN  LinkerArgs(abi, is_nostrip, is_release)
            \o RewriteBinArgs(replaced, Len(replaced), BuildPath(abi))

\* the whole argument list of the primary unit's command (exec, lines 187-302)
PrimaryArgs(args, src_index, tmp_name, abi, is_nostrip, is_release) ==
    LET replaced == ReplaceSourceArg(args, src_index, tmp_name)
    IN  RewriteBinArgs(replaced, Len(replaced), BuildPath(abi))
            \o LinkerArgs(abi, is_nostrip, is_release)

\* libs_search_paths_from_args: the values of "-L native=.." and "-L dependency=.."
RECURSIVE SearchPathsFrom(_, _, _)
SearchPathsFrom(args, i, is_search_path) ==
    IF i > Len(args) THEN <<>>
    ELSE IF is_search_path
         THEN (IF args[i][1] \in {"native=", "dependency="} THEN <<Tail(args[i])>> ELSE <<>>)
                  \o SearchPathsFrom(args, i + 1, FALSE)
         ELSE SearchPathsFrom(args, i + 1, args[i] = Arg("-L"))

libs_search_paths_from_args(args) == SearchPathsFrom(args, 1, FALSE)

\* std::env LD_LIBRARY_PATH, as dylib_path() reads it
DylibPath == << <<"ld">> >>

\* libs_search_paths as exec assembles it (lines 334-344)
LibsSearchPaths(cmd_args, abi) ==
    libs_search_paths_from_args(cmd_args)
        \o <<VersionIndependentLibrariesPath(abi)>>
        \o << <<abi, "deps">> >>
        \o DylibPath

\* Option::None of find_library_path
NoPath == <<>>

\* find_library_path that takes the last search path that holds the library
find_library_pathLast(paths, library, is_file) ==
    IF \E i \in 1..Len(paths) : paths[i] \in is_file
    THEN LET i == CHOOSE k \in 1..Len(paths) :
                    /\ paths[k] \in is_file
                    /\ \A j \in (k + 1)..Len(paths) : paths[j] \notin is_file
         IN  paths[i] \o <<library>>
    ELSE NoPath

\* find_library_path: the first search path under which the library is a file;
\* is_file is the set of directories that hold it
find_library_path(paths, library, is_file) ==
    IF \E i \in 1..Len(paths) : paths[i] \in is_file
    THEN LET i == CHOOSE k \in 1..Len(paths) :
                    /\ paths[k] \in is_file
                    /\ \A j \in 1..(k - 1) : paths[j] \notin is_file
         IN  paths[i] \o <<library>>
    ELSE NoPath

\* InsertNew with insert(dylib, false) in place of entry(dylib).or_insert(false)
InsertNewOverwrites(map, names) ==
    [n \in (DOMAIN map) \cup names |-> IF n \in names THEN FALSE ELSE map[n]]

\* found_dylibs.entry(dylib).or_insert(false) for every listed name
InsertNew(map, names) ==
    [n \in (DOMAIN map) \cup names |-> IF n \in DOMAIN map THEN map[n] ELSE FALSE]

\* SeedProcessed that enters the platform libraries as not yet processed
SeedUnprocessed(android_dylibs) == [n \in android_dylibs |-> FALSE]

\* android_dylibs.into_iter().map(|dylib| (dylib, true)).collect()
SeedProcessed(android_dylibs) == [n \in android_dylibs |-> TRUE]

\* the names the while loop may pick: those with is_processed = false
Unprocessed(map) == { n \in DOMAIN map : ~map[n] }

\* the .so files of the platform library directory
PlatformLibs == {"liblog.so"}

\* the directories that may hold a library of the workspace
LibraryDirs(abi) == { <<"d1">>, <<abi, "deps">> }

\* The model explores two families of builds.  In a "static" build the
\* configuration, the targets and the command lines vary freely, there is one
\* build target and the binaries have no NEEDED entries.  In a "dynamic" build
\* there are NumArchs build targets, the binary of the application and the
\* libraries it leads to may have any NEEDED entries, the configuration is the
\* debug one and cargo's command lines are those of LinkedCmdLines.
Linkages == {"static", "dynamic"}

\* the command lines of a dynamic build
LinkedCmdLines ==
    { <<Arg("-L"), <<"dependency=", "d1">>, <<"src", "main.rs">> >> }

RustcCmdLines(l) == IF l = "dynamic" THEN LinkedCmdLines ELSE CmdLines

\* the targets cargo compiles
TargetsOf(l) == IF l = "dynamic" THEN { t \in Targets : t.name # "demo" } ELSE Targets

\* config.build_targets.len()
ArchCount(l) == IF l = "dynamic" THEN NumArchs ELSE 1

\* what readelf -d may report as the NEEDED entries of a file built for target
NeededEntries(l, target) ==
    IF l = "dynamic" /\ target.name = "app" THEN SUBSET DylibNames ELSE {{}}

(***************************************************************************)
(* State                                                                   *)
(***************************************************************************)
VARIABLES
    linkage,            \* the family of builds explored: "static" or "dynamic"
    release,            \* config.release
    nostrip,            \* options.get_flag("nostrip")
    observe,            \* whether what readelf and the file system show is kept in needed_seen
                        \* and dirs_seen
    run,                \* build: "start" before collect_java_files, "panicked" after a panic;
                        \* build_shared_libraries: "configuring" at the head of an iteration of the
                        \* loop over the build targets, "building" inside compile_with_exec,
                        \* "aborted" or "finished"
    env,                \* std::env: the value of each toolchain variable of the process
    env_set,            \* the toolchain variables the running iteration has set
    arch_idx,           \* position of the loop over config.build_targets
    pc,                 \* the hook: "idle" between invocations, "resolve" inside the while loop,
                        \* "returned" when exec has returned and cargo has not yet taken the result
    call,               \* target, mode and cmd arguments of the last hook invocation
    executed,           \* the commands that invocation has executed so far, in order
    result,             \* what that invocation returned: "none" while it runs, "ok" or "err"
    error,              \* the step that failed, when it returned "err"
    shared_libraries,   \* the MultiMap<Target, SharedLibrary>, as the sequence of its insertions
    found_dylibs,       \* the map [library]: is_processed of the running invocation
    libs_search_paths,  \* the search paths of the running invocation
    lookups,            \* the names find_library_path was called with, in order
    stderr_lines,       \* the names the hook has warned about through on_stderr_line
    compiled,           \* the (target, abi) pairs cargo has already handed to the hook as primary units
    tmp_files,          \* the temporary source files that exist
    needed_seen,        \* what readelf -d has reported to the running invocation: pairs of a
                        \* binary ("main" for the unit's own library) and its NEEDED entries
    dirs_seen           \* what the file system has shown to the running invocation: pairs of a
                        \* library name and the directories that hold a file of that name

hookVars ==
    <<linkage, release, nostrip, observe, run, env, env_set, arch_idx, pc, call, executed, result,
      error,
      shared_libraries, found_dylibs, libs_search_paths, lookups, stderr_lines, compiled,
      tmp_files, needed_seen, dirs_seen>>

NoTarget == [kind |-> None, name |-> None]
NoCall == [target |-> NoTarget, mode |-> None, args |-> <<>>]

\* the steps of the primary branch that can stop the invocation, in program order
PrimarySteps ==
    << "resolve", "src_path", "canonicalize", "tempfile", "source_arg",
       "find_ndk_path", "libgcc", "find_libunwind_dir",
       "exec", "print", "record",
       "find_readelf", "list_android_dylibs", "list_needed_dylibs" >>

StepIndex(step) == CHOOSE i \in 1..Len(PrimarySteps) : PrimarySteps[i] = step

\* no step stops the invocation
NoStop == Len(PrimarySteps) + 1

\* steps whose outcome the environment decides ("source_arg" depends on the
\* arguments only, "record" cannot fail)
EnvSteps == (1..Len(PrimarySteps)) \ {StepIndex("source_arg"), StepIndex("record")}

\* PrimaryRecorded that inserts the record before the commands are run
PrimaryRecordedEarly(stop) == stop >= StepIndex("exec")

\* shared_libraries.insert (lines 319-327) is reached: nothing before it, the
\* command and the --print query included, has stopped the invocation
PrimaryRecorded(stop) == stop > StepIndex("record")

IsPrimary(target, mode) ==
    mode = "Build" /\ (target.kind = "Bin" \/ target.kind = "ExampleBin")

Abi == BuildTargets[arch_idx]

\* the environment variables the loop sets for the cc and the cmake crate
\* (lines 50-59) whose value is a path of the toolchain
ToolchainVars == {"CC", "CXX", "AR", "CMAKE_TOOLCHAIN_FILE"}

\* a variable the process does not have
Unset == <<>>

\* what the process may have inherited for a toolchain variable
Inherited == <<"usr", "bin", "cc">>

\* the value the loop computes for a variable and a build target: find_clang,
\* find_clang_cpp, find_ar (the same llvm-ar for every build target) and the
\* toolchain file write_cmake_toolchain writes into build_target_dir
ToolchainValue(name, abi) ==
    CASE name = "CC"  -> <<"toolroot", "bin", abi, "clang">>
      [] name = "CXX" -> <<"toolroot", "bin", abi, "clang++">>
      [] name = "AR"  -> <<"toolroot", "bin", "llvm-ar">>
      [] OTHER        -> <<abi, "cargo-apk.toolchain.cmake">>

\* the fallible statements of an iteration before compile_with_exec, in program order
ConfigureSteps ==
    << "create_dir_all", "find_clang", "find_clang_cpp", "find_ar",
       "write_cmake_toolchain", "compile_options" >>

\* the statement after which set_var is called for a variable
SetAfter(name) ==
    CASE name = "CC"  -> 2
      [] name = "CXX" -> 3
      [] name = "AR"  -> 4
      [] OTHER        -> 5

\* SetVar that leaves a variable that has a value alone
SetVarIfUnset(environment, name, value) ==
    IF environment[name] = Unset THEN [environment EXCEPT ![name] = value] ELSE environment

\* std::env::set_var
SetVar(environment, name, value) == [environment EXCEPT ![name] = value]

\* the options, the configuration and the environment build is started with
BuildInputs ==
    /\ linkage \in Linkages
    /\ release \in (IF linkage = "static" THEN BOOLEAN ELSE {FALSE})
    /\ nostrip \in (IF linkage = "static" THEN BOOLEAN ELSE {FALSE})
    /\ env \in { [name \in ToolchainVars |-> v] : v \in {Unset, Inherited} }

\* nothing has been configured, compiled or recorded yet
HookAtRest ==
    /\ env_set = {}
    /\ arch_idx = 1
    /\ pc = "idle"
    /\ call = NoCall
    /\ executed = <<>>
    /\ result = "none"
    /\ error = None
    /\ shared_libraries = <<>>
    /\ found_dylibs = <<>>
    /\ libs_search_paths = <<>>
    /\ lookups = <<>>
    /\ stderr_lines = <<>>
    /\ compiled = {}
    /\ tmp_files = {}
    /\ needed_seen = {}
    /\ dirs_seen = {}

HookInit ==
    /\ BuildInputs
    /\ observe = FALSE
    /\ run = "configuring"
    /\ HookAtRest

\* a SharedLibrary as the MultiMap holds it under its target
SharedLibrary(target, abi, path, filename) ==
    [target |-> target, abi |-> abi, path |-> path, filename |-> filename]

\* Set of the elements of a sequence
Range(seq) == { seq[i] : i \in 1..Len(seq) }

Streaming(args) == [args |-> args, how |-> "exec_with_streaming"]
WithOutput(args) == [args |-> args, how |-> "exec_with_output"]

(***************************************************************************)
(* SharedLibraryExecutor::exec, up to the start of the while loop          *)
(***************************************************************************)
\* the primary branch (lines 120-359); env_stop is the first step the environment
\* makes fail, android_dylibs and needed are what the directory listing and
\* readelf report
ExecPrimary(target, args, env_stop, android_dylibs, needed) ==
    LET filename == FileName(SrcPath(target))
        src_index == FindSourceArg(args, filename)
        stop == IF src_index <= 0 /\ env_stop > StepIndex("source_arg")
                THEN StepIndex("source_arg") ELSE env_stop
        new_args == IF src_index <= 0 THEN args
                    ELSE PrimaryArgs(args, src_index, TmpFileName(filename), Abi, nostrip, release)
        print_args == new_args \o <<Arg("--print"), Arg("file-names")>>
        library_path == BuildPath(Abi) \o <<LibFileName(target.name)>>
        Reached(step) == stop >= StepIndex(step)
        Passed(step) == stop > StepIndex(step)
    IN  /\ executed' = (IF Reached("exec") THEN <<Streaming(new_args)>> ELSE <<>>)
                        \o (IF Reached("print") THEN <<WithOutput(print_args)>> ELSE <<>>)
        /\ shared_libraries' =
                IF PrimaryRecorded(stop)
                THEN Append(shared_libraries,
                            SharedLibrary(target, Abi, library_path, LibFileName(target.name)))
                ELSE shared_libraries
        /\ IF stop = NoStop
           THEN /\ found_dylibs' = InsertNew(SeedProcessed(android_dylibs), needed)
                /\ libs_search_paths' = LibsSearchPaths(print_args, Abi)
                /\ pc' = "resolve"
                /\ result' = "none"
                /\ error' = None
           ELSE /\ found_dylibs' = <<>>
                /\ libs_search_paths' = <<>>
                /\ pc' = "returned"
                /\ IF stop = StepIndex("src_path")
                   THEN result' = "ok" /\ error' = None
                   ELSE IF stop = StepIndex("source_arg") /\ src_index < 0
                   THEN result' = "panic" /\ error' = "file_name"
                   ELSE result' = "err" /\ error' = PrimarySteps[stop]
        /\ tmp_files' =
                IF stop = NoStop
                THEN TempFileNew(tmp_files, TmpFilePath(target))
                ELSE IF Passed("tempfile")
                THEN TmpFileScopeEnd(TempFileNew(tmp_files, TmpFilePath(target)), target)
                ELSE tmp_files
        /\ needed_seen' = IF observe /\ stop = NoStop THEN {<<"main", needed>>} ELSE {}
        /\ dirs_seen' = {}

\* ExecOther without the Test branch: a Test-mode command is passed through
ExecOtherRunsTests(mode, args, ok) ==
    /\ executed' = IF mode = "Build" THEN <<Streaming(RewriteLibArgs(args, Len(args)))>>
                   ELSE <<Streaming(args)>>
    /\ IF ok
       THEN result' = "ok" /\ error' = None
       ELSE result' = "err" /\ error' = "exec"
    /\ pc' = "returned"
    /\ found_dylibs' = <<>>
    /\ libs_search_paths' = <<>>
    /\ UNCHANGED <<shared_libraries, tmp_files, needed_seen, dirs_seen>>

\* the other branches (lines 393-418); ok is the outcome of the command
ExecOther(mode, args, ok) ==
    /\ executed' = IF mode = "Test" THEN <<>>
                   ELSE IF mode = "Build" THEN <<Streaming(RewriteLibArgs(args, Len(args)))>>
                   ELSE <<Streaming(args)>>
    /\ IF mode = "Test" \/ ok
       THEN result' = "ok" /\ error' = None
       ELSE result' = "err" /\ error' = "exec"
    /\ pc' = "returned"
    /\ found_dylibs' = <<>>
    /\ libs_search_paths' = <<>>
    /\ UNCHANGED <<shared_libraries, tmp_files, needed_seen, dirs_seen>>

\* the head of an iteration of the loop over config.build_targets (lines
\* 44-72): every toolchain variable is set for the build target; stop is the
\* first statement that fails
ConfigureBuildTarget ==
    /\ run = "configuring"
    /\ \E stop \in 1..(Len(ConfigureSteps) + 1) :
        LET IsSet(name) == stop > SetAfter(name)
            Configured(name) ==
                IF IsSet(name) THEN SetVar(env, name, ToolchainValue(name, Abi))[name]
                ELSE env[name]
        IN  /\ env' = [name \in ToolchainVars |-> Configured(name)]
            /\ env_set' = { name \in ToolchainVars : IsSet(name) }
            /\ run' = IF stop > Len(ConfigureSteps) THEN "building" ELSE "aborted"
    /\ UNCHANGED <<linkage, release, nostrip, observe, arch_idx, pc, call, executed, result, error,
                   shared_libraries, found_dylibs, libs_search_paths, lookups, stderr_lines,
                   compiled, tmp_files, needed_seen, dirs_seen>>

\* cargo calls the hook for one unit of the architecture being built
Exec ==
    /\ run = "building"
    /\ pc = "idle"
    /\ \E target \in TargetsOf(linkage), mode \in CompileModes, args \in RustcCmdLines(linkage) :
        /\ call' = [target |-> target, mode |-> mode, args |-> args]
        /\ lookups' = lookups
        /\ stderr_lines' = stderr_lines
        /\ IF IsPrimary(target, mode)
           THEN /\ <<target, Abi>> \notin compiled
                /\ compiled' = compiled \cup {<<target, Abi>>}
                /\ \/ \E env_stop \in EnvSteps :
                        ExecPrimary(target, args, env_stop, {}, {})
                   \/ \E needed \in NeededEntries(linkage, target) :
                        ExecPrimary(target, args, NoStop, PlatformLibs, needed)
           ELSE /\ compiled' = compiled
                /\ \E ok \in BOOLEAN : ExecOther(mode, args, ok)
    /\ UNCHANGED <<linkage, release, nostrip, observe, run, env, env_set, arch_idx>>

(***************************************************************************)
(* The while loop of the resolver (lines 361-392), one iteration per step  *)
(***************************************************************************)
\* *found_dylibs.get_mut(&dylib).unwrap() = true
MarkProcessed(map, dylib) == [map EXCEPT ![dylib] = TRUE]

\* the library is on a search path (lines 371-385): readelf lists its NEEDED
\* entries, the new names are inserted and the library is recorded
ResolveFound(dylib, path, readelf_ok, needed) ==
    /\ stderr_lines' = stderr_lines
    /\ needed_seen' = IF observe /\ readelf_ok THEN needed_seen \cup {<<dylib, needed>>}
                      ELSE needed_seen
    /\ IF readelf_ok
       THEN /\ found_dylibs' = InsertNew(MarkProcessed(found_dylibs, dylib), needed)
            /\ shared_libraries' =
                    Append(shared_libraries, SharedLibrary(call.target, Abi, path, dylib))
            /\ UNCHANGED <<pc, result, error, tmp_files>>
       ELSE /\ found_dylibs' = MarkProcessed(found_dylibs, dylib)
            /\ shared_libraries' = shared_libraries
            /\ pc' = "returned"
            /\ result' = "err"
            /\ error' = "list_needed_dylibs"
            /\ tmp_files' = TmpFileScopeEnd(tmp_files, call.target)

\* ResolveMissing that makes a missing library fatal
ResolveMissingFatal(dylib, stderr_ok) ==
    /\ stderr_lines' = Append(stderr_lines, dylib)
    /\ needed_seen' = needed_seen
    /\ found_dylibs' = MarkProcessed(found_dylibs, dylib)
    /\ shared_libraries' = shared_libraries
    /\ pc' = "returned"
    /\ result' = "err"
    /\ error' = IF stderr_ok THEN "find_library_path" ELSE "on_stderr_line"
    /\ tmp_files' = TmpFileScopeEnd(tmp_files, call.target)

\* the library is on no search path (lines 386-391): a warning goes to
\* on_stderr_line, whose error is the only thing that ends the loop here
ResolveMissing(dylib, stderr_ok) ==
    /\ stderr_lines' = Append(stderr_lines, dylib)
    /\ needed_seen' = needed_seen
    /\ found_dylibs' = MarkProcessed(found_dylibs, dylib)
    /\ shared_libraries' = shared_libraries
    /\ IF stderr_ok
       THEN UNCHANGED <<pc, result, error, tmp_files>>
       ELSE /\ pc' = "returned"
            /\ result' = "err"
            /\ error' = "on_stderr_line"
            /\ tmp_files' = TmpFileScopeEnd(tmp_files, call.target)

ResolveStep ==
    /\ pc = "resolve"
    /\ \E dylib \in Unprocessed(found_dylibs), is_file \in SUBSET LibraryDirs(Abi) :
        LET path == find_library_path(libs_search_paths, dylib, is_file)
        IN  /\ lookups' = Append(lookups, dylib)
            /\ dirs_seen' = IF observe THEN dirs_seen \cup {<<dylib, is_file>>} ELSE dirs_seen
            /\ IF path # NoPath
               THEN \E readelf_ok \in BOOLEAN, needed \in NeededEntries(linkage, call.target) :
                        ResolveFound(dylib, path, readelf_ok, needed)
               ELSE \E stderr_ok \in BOOLEAN : ResolveMissing(dylib, stderr_ok)
    /\ UNCHANGED <<linkage, release, nostrip, observe, run, env, env_set, arch_idx, call, executed,
                   libs_search_paths, compiled>>

\* no unprocessed name is left: the loop ends and exec returns Ok(())
ResolveExit ==
    /\ pc = "resolve"
    /\ Unprocessed(found_dylibs) = {}
    /\ pc' = "returned"
    /\ result' = "ok"
    /\ tmp_files' = TmpFileScopeEnd(tmp_files, call.target)
    /\ UNCHANGED <<linkage, release, nostrip, observe, run, env, env_set, arch_idx, call, executed, error,
                   shared_libraries, found_dylibs, libs_search_paths, lookups, stderr_lines,
                   compiled, needed_seen, dirs_seen>>

\* compile_with_exec returned Ok: build_shared_libraries goes on to the next
\* build target, or returns after the last one
NextBuildTarget ==
    /\ run = "building"
    /\ pc = "idle"
    /\ IF arch_idx < ArchCount(linkage)
       THEN arch_idx' = arch_idx + 1 /\ run' = "configuring" /\ env_set' = {}
       ELSE arch_idx' = arch_idx /\ run' = "finished" /\ env_set' = env_set
    /\ UNCHANGED <<linkage, release, nostrip, observe, env, pc, call, executed, result, error, shared_libraries,
                   found_dylibs, libs_search_paths, lookups, stderr_lines, compiled, tmp_files,
                   needed_seen, dirs_seen>>

\* cargo takes the result of the hook: an error ends compile_with_exec and, through
\* the `?` of line 87, build_shared_libraries; after Ok the invocation's locals are gone
ExecReturned ==
    /\ pc = "returned"
    /\ run = "building"
    /\ IF result # "ok"
       THEN /\ run' = "aborted"
            /\ UNCHANGED <<pc, call, executed, result, error, found_dylibs, libs_search_paths,
                           lookups, stderr_lines, needed_seen, dirs_seen>>
       ELSE /\ run' = run
            /\ pc' = "idle"
            /\ call' = NoCall
            /\ executed' = <<>>
            /\ result' = "none"
            /\ error' = None
            /\ found_dylibs' = <<>>
            /\ libs_search_paths' = <<>>
            /\ lookups' = <<>>
            /\ stderr_lines' = <<>>
            /\ needed_seen' = {}
            /\ dirs_seen' = {}
    /\ UNCHANGED <<linkage, release, nostrip, observe, env, env_set, arch_idx, shared_libraries, compiled,
                   tmp_files>>

HookNext ==
    ConfigureBuildTarget \/ Exec \/ ResolveStep \/ ResolveExit \/ ExecReturned \/ NextBuildTarget

(***************************************************************************)
(* build, up to the call of build_shared_libraries (build.rs lines 35-43)  *)
(***************************************************************************)
\* the packages of the resolved workspace, as pkg_set.packages() yields them
Packages == {"app", "dep"}

\* what a package root holds as quad.toml
QuadTomlStates == {"absent", "valid", "malformed"}

\* the orders in which pkg_set.packages() may yield the packages
PackageOrders ==
    { order \in [1..Cardinality(Packages) -> Packages] :
        \A i, j \in DOMAIN order : order[i] = order[j] => i = j }

VARIABLES
    quad_tomls,         \* the quad.toml of each package root: "absent", "valid" or "malformed"
    java_files          \* JavaFiles: the packages whose settings were collected, in order

frontVars == <<quad_tomls, java_files>>

\* no package has a quad.toml and nothing is collected
FrontIdle ==
    /\ quad_tomls = [package \in Packages |-> "absent"]
    /\ java_files = <<>>

\* read_quad_toml that treats a malformed file as a missing one
read_quad_tomlLenient(package) ==
    IF quad_tomls[package] = "valid" THEN "Some" ELSE "None"

\* read_quad_toml (util.rs lines 273-292): None when the file does not exist,
\* a panic when toml::from_str fails, Some(config) otherwise
read_quad_toml(package) ==
    CASE quad_tomls[package] = "absent"    -> "None"
      [] quad_tomls[package] = "malformed" -> "panic"
      [] OTHER                             -> "Some"

\* build, lines 38-43: find_package_root_path, then collect_java_files reads
\* the quad.toml of every package in the order the package set yields them;
\* a panic ends the process before build_shared_libraries is called
CollectJavaFiles ==
    /\ run = "start"
    /\ \E miniquad_found \in BOOLEAN, order \in PackageOrders :
        LET panics == \E i \in DOMAIN order : read_quad_toml(order[i]) = "panic"
        IN  IF ~miniquad_found \/ panics
            THEN run' = "panicked" /\ java_files' = java_files
            ELSE /\ run' = "configuring"
                 /\ java_files' = SelectSeq(order, LAMBDA package : read_quad_toml(package) = "Some")
    /\ UNCHANGED <<quad_tomls, linkage, release, nostrip, observe, env, env_set, arch_idx, pc, call, executed,
                   result, error, shared_libraries, found_dylibs, libs_search_paths, lookups,
                   stderr_lines, compiled, tmp_files, needed_seen, dirs_seen>>

(***************************************************************************)
(* The glue templater (preprocessor.rs).  A text is a sequence of tokens,  *)
(* "\n" being the line break; a line is the sequence of its tokens.        *)
(***************************************************************************)
\* a fragment file has at most MaxLines lines
MaxLines == 3
\* inject_files has at most MaxFiles entries
MaxFiles == 2

\* the fields of Inject and of its ClassInject
Sections == {"imports", "body", "on_resume", "on_pause", "on_create"}

\* the lines a fragment file is made of: the empty line, the six marker lines, a
\* line of code and a line that names markers without starting with the sigil
Lines ==
    { <<>>,
      <<"//%", "IMPORTS">>,
      <<"//%", "MAIN_ACTIVITY_BODY">>,
      <<"//%", "MAIN_ACTIVITY_ON_CREATE">>,
      <<"//%", "MAIN_ACTIVITY_ON_RESUME">>,
      <<"//%", "MAIN_ACTIVITY_ON_PAUSE">>,
      <<"//%", "END">>,
      <<"x;">>,
      <<"//", "IMPORTS", "END">> }

\* str::starts_with
StartsWith(line, prefix) == Len(line) > 0 /\ line[1] = prefix

\* str::contains
Contains(line, word) == \E i \in 1..Len(line) : line[i] = word

\* Inject::default()
InjectDefault == [f \in Sections |-> <<>>]

\* Inject::add with the pushes of on_resume and on_pause crossed
addCrossed(self, other) ==
    [ imports   |-> self.imports \o other.imports,
      body      |-> self.body \o other.body,
      on_resume |-> self.on_resume \o other.on_pause,
      on_pause  |-> self.on_pause \o other.on_resume,
      on_create |-> self.on_create \o other.on_create ]

\* Inject::add: push_str of every field of other
add(self, other) ==
    [ imports   |-> self.imports \o other.imports,
      body      |-> self.body \o other.body,
      on_resume |-> self.on_resume \o other.on_resume,
      on_pause  |-> self.on_pause \o other.on_pause,
      on_create |-> self.on_create \o other.on_create ]

\* the markers of parse_inject_template in the order the loop tests them, each
\* with the field it opens
Markers ==
    << [word |-> "IMPORTS", field |-> "imports"],
       [word |-> "MAIN_ACTIVITY_BODY", field |-> "body"],
       [word |-> "MAIN_ACTIVITY_ON_CREATE", field |-> "on_create"],
       [word |-> "MAIN_ACTIVITY_ON_RESUME", field |-> "on_resume"],
       [word |-> "MAIN_ACTIVITY_ON_PAUSE", field |-> "on_pause"] >>

\* the first marker the line matches, 0 when it matches none
MatchedMarker(line) ==
    IF \E k \in 1..Len(Markers) : StartsWith(line, "//%") /\ Contains(line, Markers[k].word)
    THEN CHOOSE k \in 1..Len(Markers) :
            /\ StartsWith(line, "//%") /\ Contains(line, Markers[k].word)
            /\ \A j \in 1..(k - 1) : ~Contains(line, Markers[j].word)
    ELSE 0

\* ParseLine without the assert!(target.is_some()) of the END marker
ParseLineLenientEnd(target, res, line) ==
    IF line = <<>>
    THEN [target |-> target, res |-> res, panic |-> FALSE]
    ELSE IF MatchedMarker(line) # 0
    THEN IF target # None
         THEN [target |-> target, res |-> res, panic |-> TRUE]
         ELSE [target |-> Markers[MatchedMarker(line)].field, res |-> res, panic |-> FALSE]
    ELSE IF StartsWith(line, "//%") /\ Contains(line, "END")
    THEN [target |-> None, res |-> res, panic |-> FALSE]
    ELSE IF target # None
    THEN [target |-> target,
          res |-> [res EXCEPT ![target] = @ \o line \o <<"\n">>],
          panic |-> FALSE]
    ELSE [target |-> target, res |-> res, panic |-> FALSE]

\* ParseLine with write! in the place of writeln!: the line goes to the open
\* section without its line break
ParseLineNoBreak(target, res, line) ==
    IF line = <<>>
    THEN [target |-> target, res |-> res, panic |-> FALSE]
    ELSE IF MatchedMarker(line) # 0
    THEN IF target # None
         THEN [target |-> target, res |-> res, panic |-> TRUE]
         ELSE [target |-> Markers[MatchedMarker(line)].field, res |-> res, panic |-> FALSE]
    ELSE IF StartsWith(line, "//%") /\ Contains(line, "END")
    THEN IF target = None
         THEN [target |-> target, res |-> res, panic |-> TRUE]
         ELSE [target |-> None, res |-> res, panic |-> FALSE]
    ELSE IF target # None
    THEN [target |-> target,
          res |-> [res EXCEPT ![target] = @ \o line],
          panic |-> FALSE]
    ELSE [target |-> target, res |-> res, panic |-> FALSE]

\* one iteration of the loop over file.lines() (lines 37-79): the new target and
\* res, and whether an assert! failed
ParseLine(target, res, line) ==
    IF line = <<>>
    THEN [target |-> target, res |-> res, panic |-> FALSE]
    ELSE IF MatchedMarker(line) # 0
    THEN IF target # None
         THEN [target |-> target, res |-> res, panic |-> TRUE]
         ELSE [target |-> Markers[MatchedMarker(line)].field, res |-> res, panic |-> FALSE]
    ELSE IF StartsWith(line, "//%") /\ Contains(line, "END")
    THEN IF target = None
         THEN [target |-> target, res |-> res, panic |-> TRUE]
         ELSE [target |-> None, res |-> res, panic |-> FALSE]
    ELSE IF target # None
    THEN [target |-> target,
          res |-> [res EXCEPT ![target] = @ \o line \o <<"\n">>],
          panic |-> FALSE]
    ELSE [target |-> target, res |-> res, panic |-> FALSE]

VARIABLES
    glue_pc,        \* preprocess_main_activity: "scan" while it reads fragments, "panic" after a failed assert!
    file_idx,       \* the fragment files merged so far
    line_no,        \* the number of lines of the current fragment file read so far
    line,           \* the line the loop of parse_inject_template took last
    inject_target,  \* parse_inject_template's target: None or the open section
    res,            \* parse_inject_template's res
    inject          \* preprocess_main_activity's inject

glueVars == <<glue_pc, file_idx, line_no, line, inject_target, res, inject>>

GlueInit ==
    /\ glue_pc = "scan"
    /\ file_idx = 0
    /\ line_no = 0
    /\ line = <<>>
    /\ inject_target = None
    /\ res = InjectDefault
    /\ inject = InjectDefault

\* the loop of parse_inject_template takes the next line of the file
ScanLine ==
    /\ glue_pc = "scan"
    /\ file_idx < MaxFiles
    /\ line_no < MaxLines
    /\ \E next_line \in Lines :
        LET step == ParseLine(inject_target, res, next_line)
        IN  /\ line_no' = line_no + 1
            /\ line' = next_line
            /\ inject_target' = step.target
            /\ res' = step.res
            /\ glue_pc' = IF step.panic THEN "panic" ELSE "scan"
    /\ UNCHANGED <<file_idx, inject>>

\* the file has no more lines: parse_inject_template returns res and
\* preprocess_main_activity merges it (lines 128-131)
MergeFile ==
    /\ glue_pc = "scan"
    /\ file_idx < MaxFiles
    /\ inject' = add(inject, res)
    /\ file_idx' = file_idx + 1
    /\ line_no' = 0
    /\ line' = <<>>
    /\ inject_target' = None
    /\ res' = InjectDefault
    /\ UNCHANGED glue_pc

(***************************************************************************)
(* parse_inject_template on a whole fragment file                          *)
(***************************************************************************)
\* a fragment file has at most MaxTemplateLines lines
MaxTemplateLines == 4

\* the lines of a fragment file: those of Lines and a line that starts with the
\* sigil without naming a marker
TemplateLines == Lines \cup { <<"//%", "x;">> }

\* the fragment files: what file.lines() yields
TemplateFiles == UNION { [1..n -> TemplateLines] : n \in 0..MaxTemplateLines }

\* the loop of lines 37-79 over the lines that are left; an assert! that fails
\* ends it
RECURSIVE ParseFrom(_, _, _)
ParseFrom(target, acc, rest) ==
    IF rest = <<>>
    THEN [res |-> acc, panic |-> FALSE]
    ELSE LET step == ParseLine(target, acc, Head(rest))
         IN  IF step.panic
             THEN [res |-> step.res, panic |-> TRUE]
             ELSE ParseFrom(step.target, step.res, Tail(rest))

\* parse_inject_template (lines 33-81): res and target start empty
parse_inject_template(file) == ParseFrom(None, InjectDefault, file)

VARIABLES
    parse_pc,       \* "call" before parse_inject_template has run on template_src, "done" after
    template_src,   \* the text of the fragment file, as its lines
    injects         \* what parse_inject_template returned, and whether it panicked

parseVars == <<parse_pc, template_src, injects>>

NotParsed == [res |-> InjectDefault, panic |-> FALSE]

ParseInit ==
    /\ parse_pc = "call"
    /\ template_src \in TemplateFiles
    /\ injects = NotParsed

\* the call parse_inject_template(&file)
ParseTemplate ==
    /\ parse_pc = "call"
    /\ injects' = parse_inject_template(template_src)
    /\ parse_pc' = "done"
    /\ UNCHANGED template_src

(***************************************************************************)
(* preprocess_main_activity on MainActivity.java and whole fragment files  *)
(***************************************************************************)
\* a section placeholder of MainActivity.java: the sigil, a space and the word
Placeholder(word) == <<"//%", word>>

\* the words of the five section placeholders
PlaceholderWords == { Markers[k].word : k \in 1..Len(Markers) }

\* the lines a section of a fragment file holds: code, code that names one of
\* the tokens of MainActivity.java, code followed by the text of a placeholder
SectionTexts ==
    { <<"x;">>, <<"TARGET_PACKAGE_NAME">> }
        \cup { <<"x;">> \o Placeholder(word) : word \in PlaceholderWords }

\* the fragment files of inject_files: one section holding one line, and a file
\* that closes a section it never opened
InjectFiles ==
    { << Placeholder(word), content, <<"//%", "END">> >> :
            word \in PlaceholderWords, content \in SectionTexts }
        \cup { << <<"//%", "END">> >> }

\* miniquad's MainActivity.java: the two tokens and the five placeholders, each
\* placeholder on a line of its own; and a source without the imports line
MainActivity ==
    <<"package", "TARGET_PACKAGE_NAME", "\n">>
        \o Placeholder("IMPORTS") \o <<"\n">>
        \o <<"loadLibrary", "LIBRARY_NAME", "\n">>
        \o Placeholder("MAIN_ACTIVITY_BODY") \o <<"\n">>
        \o Placeholder("MAIN_ACTIVITY_ON_RESUME") \o <<"\n">>
        \o Placeholder("MAIN_ACTIVITY_ON_PAUSE") \o <<"\n">>
        \o Placeholder("MAIN_ACTIVITY_ON_CREATE") \o <<"\n">>

JavaSources ==
    { MainActivity,
      <<"loadLibrary", "LIBRARY_NAME", "\n">>
        \o Placeholder("MAIN_ACTIVITY_BODY") \o <<"\n">>
        \o Placeholder("MAIN_ACTIVITY_ON_CREATE") \o <<"\n">> }

\* str::replace: every non-overlapping match of from, left to right, becomes
\* to; what was put in is not searched again by the same call
RECURSIVE Replace(_, _, _)
Replace(text, from, to) ==
    IF Len(text) < Len(from)
    THEN text
    ELSE IF SubSeq(text, 1, Len(from)) = from
    THEN to \o Replace(SubSeq(text, Len(from) + 1, Len(text)), from, to)
    ELSE <<Head(text)>> \o Replace(Tail(text), from, to)

\* the loop of lines 127-131 over the files that are left: fs::read_to_string,
\* parse_inject_template, Inject::add; an assert! that fails ends it
RECURSIVE AddInjects(_, _)
AddInjects(acc, files) ==
    IF files = <<>>
    THEN [res |-> acc, panic |-> FALSE]
    ELSE LET parsed == parse_inject_template(Head(files))
         IN  IF parsed.panic
             THEN [res |-> acc, panic |-> TRUE]
             ELSE AddInjects(add(acc, parsed.res), Tail(files))

\* lines 123-140: the two tokens, then the five placeholders one after the
\* other, each replace working on the result of the one before it
Substitute(src, package, library, merged) ==
    LET named     == Replace(Replace(src, <<"TARGET_PACKAGE_NAME">>, <<package>>),
                             <<"LIBRARY_NAME">>, <<library>>)
        imported  == Replace(named, Placeholder("IMPORTS"), merged.imports)
        bodied    == Replace(imported, Placeholder("MAIN_ACTIVITY_BODY"), merged.body)
        resumed   == Replace(bodied, Placeholder("MAIN_ACTIVITY_ON_RESUME"), merged.on_resume)
        paused    == Replace(resumed, Placeholder("MAIN_ACTIVITY_ON_PAUSE"), merged.on_pause)
    IN  Replace(paused, Placeholder("MAIN_ACTIVITY_ON_CREATE"), merged.on_create)

VARIABLES
    pre_pc,             \* "call" before preprocess_main_activity has run, "done" or "panic" after
    java_src,           \* the text of MainActivity.java it is given
    inject_files,       \* the fragment files it is given, in order
    activity_src        \* the text it returns

preVars == <<pre_pc, java_src, inject_files, activity_src>>

PreInit ==
    /\ pre_pc = "call"
    /\ java_src \in JavaSources
    /\ inject_files \in UNION { [1..n -> InjectFiles] : n \in 0..MaxFiles }
    /\ activity_src = <<>>

\* the call preprocess_main_activity(&java_src, "rust.app", "app", &inject_files)
PreprocessMainActivity ==
    /\ pre_pc = "call"
    /\ LET merged == AddInjects(InjectDefault, inject_files)
       IN  IF merged.panic
           THEN pre_pc' = "panic" /\ activity_src' = activity_src
           ELSE /\ pre_pc' = "done"
                /\ activity_src' = Substitute(java_src, "rust.app", "app", merged.res)
    /\ UNCHANGED <<java_src, inject_files>>

(***************************************************************************)
(* build_manifest                                                          *)
(***************************************************************************)
\* target_config.permissions has at most MaxPermissions entries
MaxPermissions == 2
\* target_config.features has at most MaxFeatures entries
MaxFeatures == 2

\* an Option<T>: no entry for None, one entry for Some(v)
Some(v) == <<v>>
NoneOpt == <<>>

\* AndroidPermission values: a name and an optional max_sdk_version, given by
\* its decimal text
Permissions ==
    [ name : {"CAMERA", "INTERNET"}, max_sdk_version : {NoneOpt, Some("18")} ]

\* AndroidFeature values: a name, required and an optional version
Features ==
    [ name : {"gps", "nfc"}, required : BOOLEAN, version : {NoneOpt, Some("1")} ]

\* the sequences over S of at most n entries
SeqUpTo(S, n) == UNION { [1..k -> S] : k \in 0..n }

\* the AndroidTargetConfig and JavaFiles values build_manifest is called with:
\* the lists vary, the scalar fields are one fixed configuration
TargetConfigs ==
    [ package_name : {"rust.my-app"},
      package_label : {"App"},
      version_code : {"1"},
      version_name : {"0.1"},
      permissions : SeqUpTo(Permissions, MaxPermissions),
      features : SeqUpTo(Features, MaxFeatures),
      java_services : {<<>>, <<"Svc">>} ]

\* the pieces of the manifest text: an element with its attributes in the
\* order they are written, or a run of text between elements
Element(tag, attrs) == [kind |-> "element", tag |-> tag, attrs |-> attrs]
Text(t) == [kind |-> "text", tag |-> t, attrs |-> <<>>]

\* an optional attribute: written when the Option is Some, the empty string
\* otherwise (map_or(String::new(), ..))
OptAttr(attr, opt) == IF opt = NoneOpt THEN <<>> ELSE << <<attr, opt[1]>> >>

\* format!("{}", bool)
BoolText(b) == IF b THEN "true" ELSE "false"

\* str::replace("-", "_") on the package name
PackageIdent(name) == IF name = "rust.my-app" THEN "rust.my_app" ELSE name

\* Vec<String>::join(", ")
RECURSIVE Join(_, _)
Join(pieces, sep) ==
    IF pieces = <<>> THEN <<>>
    ELSE IF Len(pieces) = 1 THEN <<pieces[1]>>
    ELSE <<pieces[1], sep>> \o Join(Tail(pieces), sep)

\* lines 499-513
uses_features(target_config) ==
    Join([ i \in 1..Len(target_config.features) |->
            LET f == target_config.features[i]
            IN  Element("uses-feature",
                        << <<"android:name", f.name>>,
                           <<"android:required", BoolText(f.required)>> >>
                        \o OptAttr("android:version", f.version)) ],
         Text(", "))

\* uses_permissions that writes the permissions last to first
uses_permissionsReversed(target_config) ==
    Join([ i \in 1..Len(target_config.permissions) |->
            LET f == target_config.permissions[Len(target_config.permissions) + 1 - i]
            IN  Element("uses-permission",
                        << <<"android:name", f.name>> >>
                        \o OptAttr("android:maxSdkVersion", f.max_sdk_version)) ],
         Text(", "))

\* lines 515-529
uses_permissions(target_config) ==
    Join([ i \in 1..Len(target_config.permissions) |->
            LET f == target_config.permissions[i]
            IN  Element("uses-permission",
                        << <<"android:name", f.name>> >>
                        \o OptAttr("android:maxSdkVersion", f.max_sdk_version)) ],
         Text(", "))

\* lines 533-543
services(target_config) ==
    Join([ i \in 1..Len(target_config.java_services) |->
            Element("service",
                    << <<"android:name", target_config.java_services[i]>>,
                       <<"android:enabled", "true">> >>) ],
         Text(", "))

\* the text written at lines 546-581, element by element, for the default
\* sdk versions and OpenGL ES 2.0
ManifestText(target_config, target_name) ==
    << Element("manifest",
               << <<"package", PackageIdent(target_config.package_name)>>,
                  <<"android:versionCode", target_config.version_code>>,
                  <<"android:versionName", target_config.version_name>> >>),
       Element("uses-sdk",
               << <<"android:targetSdkVersion", "target">>,
                  <<"android:minSdkVersion", "min">> >>),
       Element("uses-feature",
               << <<"android:glEsVersion", "0x00020000">>,
                  <<"android:required", "true">> >>) >>
    \o uses_features(target_config)
    \o uses_permissions(target_config)
    \o << Element("application",
                  << <<"android:hasCode", "true">>,
                     <<"android:label", target_config.package_label>> >>) >>
    \o services(target_config)
    \o << Element("activity",
                  << <<"android:name", ".MainActivity">>,
                     <<"android:label", target_config.package_label>>,
                     <<"android:configChanges", "orientation|keyboardHidden|screenSize">> >>),
          Element("meta-data",
                  << <<"android:name", "android.app.lib_name">>,
                     <<"android:value", target_name>> >>),
          Element("intent-filter", <<>>),
          Element("action", << <<"android:name", "android.intent.action.MAIN">> >>),
          Element("category", << <<"android:name", "android.intent.category.LAUNCHER">> >>) >>

VARIABLES
    manifest_pc,        \* "call" before build_manifest has run, "done" after
    target_config,      \* the AndroidTargetConfig and the services build_manifest is given
    manifest_file,      \* the content of AndroidManifest.xml
    manifest_result     \* "none", "ok" or "err"

manifestVars == <<manifest_pc, target_config, manifest_file, manifest_result>>

ManifestInit ==
    /\ manifest_pc = "call"
    /\ target_config \in TargetConfigs
    /\ manifest_file = <<>>
    /\ manifest_result = "none"

\* build_manifest (lines 451-584): File::create truncates the file or fails,
\* then the text is written in one writeln!
build_manifest(create_ok, write_ok) ==
    /\ manifest_pc = "call"
    /\ manifest_pc' = "done"
    /\ manifest_file' = IF create_ok /\ write_ok
                        THEN ManifestText(target_config, "app")
                        ELSE <<>>
    /\ manifest_result' = IF create_ok /\ write_ok THEN "ok" ELSE "err"
    /\ UNCHANGED target_config

BuildManifest == \E create_ok, write_ok \in BOOLEAN : build_manifest(create_ok, write_ok)

(***************************************************************************)
(* find_ndk_path                                                           *)
(***************************************************************************)
\* the configured platform version is at most MaxPlatform
MaxPlatform == 3

\* the bound of the upward loop (util.rs line 84)
PlatformCeiling == 100

\* the versions that may have a file: the low ones and the last one below the
\* ceiling
CandidateVersions == 0..(MaxPlatform + 1) \cup {PlatformCeiling - 1}

\* the result of find_ndk_path: Ok(path_builder(version)) or the error
\* "Unable to find NDK file"
Found(version) == [ok |-> TRUE, version |-> version]
NotFound == [ok |-> FALSE, version |-> 0]

\* the first loop (lines 73-80), entered with tmp_platform
RECURSIVE LookDown(_, _)
LookDown(tmp_platform, existing) ==
    IF tmp_platform > 1
    THEN IF tmp_platform \in existing
         THEN Found(tmp_platform)
         ELSE LookDown(tmp_platform - 1, existing)
    ELSE NotFound

\* the second loop (lines 84-91), entered with tmp_platform
RECURSIVE LookUp(_, _)
LookUp(tmp_platform, existing) ==
    IF tmp_platform < PlatformCeiling
    THEN IF tmp_platform \in existing
         THEN Found(tmp_platform)
         ELSE LookUp(tmp_platform + 1, existing)
    ELSE NotFound

\* find_ndk_path (lines 65-94); existing holds the versions v for which
\* path_builder(v).exists()
find_ndk_path(platform, existing) ==
    IF LookDown(platform, existing).ok
    THEN LookDown(platform, existing)
    ELSE LookUp(platform, existing)

VARIABLES
    ndk_pc,         \* "call" before find_ndk_path has run, "done" after
    platform,       \* the configured platform version
    existing,       \* the versions whose path exists
    ndk_path        \* what find_ndk_path returned

ndkVars == <<ndk_pc, platform, existing, ndk_path>>

NdkInit ==
    /\ ndk_pc = "call"
    /\ platform \in 0..MaxPlatform
    /\ existing \in SUBSET CandidateVersions
    /\ ndk_path = NotFound

\* the call find_ndk_path(platform, path_builder)
FindNdkPath ==
    /\ ndk_pc = "call"
    /\ ndk_path' = find_ndk_path(platform, existing)
    /\ ndk_pc' = "done"
    /\ UNCHANGED <<platform, existing>>

(***************************************************************************)
(* build_apks                                                              *)
(***************************************************************************)
VARIABLES
    apk_pc,             \* build_apks: "idle" before the call, "loop" at the head of the loop over the
                        \* targets, the step to take next inside an iteration, "returned" or "failed"
    sign,               \* !options.is_present("nosign")
    keystore,           \* ~/.android/debug.keystore: "unknown" until the first look, then "absent" or "present"
    apk_target,         \* the target of the running iteration
    lib_idx,            \* position of the loop over the target's shared libraries
    unaligned_apk,      \* the entries of <name>_unaligned.apk, in the order they were added
    final_apks,         \* the files <name>.apk written so far
    target_to_apk_map,  \* the keys of target_to_apk_map
    apk_log,            \* the tools build_apks has invoked, in order
    apk_error,          \* the step that failed, when build_apks returned an error
    manifests,          \* the content of each target directory's AndroidManifest.xml
    first_run           \* what an earlier run of build_apks over the same inputs returned and wrote

\* a file that does not exist or is empty
NoFile == <<>>

\* no earlier run
NoRun == [done |-> FALSE, keys |-> {}, manifests |-> [target \in Targets |-> NoFile]]

apkVars ==
    <<apk_pc, sign, keystore, apk_target, lib_idx, unaligned_apk, final_apks, target_to_apk_map,
      apk_log, apk_error, manifests, first_run>>

ApkInit ==
    /\ apk_pc = "idle"
    /\ sign = FALSE
    /\ keystore = "unknown"
    /\ apk_target = NoTarget
    /\ lib_idx = 1
    /\ unaligned_apk = <<>>
    /\ final_apks = {}
    /\ target_to_apk_map = {}
    /\ apk_log = <<>>
    /\ apk_error = None
    /\ manifests = [target \in Targets |-> NoFile]
    /\ first_run = NoRun

\* shared_libraries.iter_all(): the keys of the MultiMap, and the values of one
\* key in the order they were inserted
MapKeys == { shared_libraries[k].target : k \in 1..Len(shared_libraries) }

\* the values of a key, the first build target's only
LibrariesOfFirstAbi(target) ==
    SelectSeq(shared_libraries, LAMBDA rec : rec.target = target /\ rec.abi = BuildTargets[1])

LibrariesOf(target) == SelectSeq(shared_libraries, LAMBDA rec : rec.target = target)

\* one invocation of an external tool (build_manifest counts as one) for a
\* target, and whether it succeeded
Event(target, tool, arg, ok) == [target |-> target, tool |-> tool, arg |-> arg, ok |-> ok]

\* an entry of the package: its path inside the archive and the file it was
\* copied from
PackageEntry(inner_path, from) == [inner_path |-> inner_path, from |-> from]

\* SoPath with the separator of a platform whose native separator is the backslash
SoPathNative(shared_library) ==
    <<"lib", "\\", shared_library.abi, "\\", shared_library.filename>>

\* format!("lib/{}/{}", abi, filename) (lines 288-292): the text handed to
\* `aapt add`, token by token
SoPath(shared_library) == <<"lib", "/", shared_library.abi, "/", shared_library.filename>>

\* the outcomes of a step: the tool succeeds, the tool fails, or something
\* before it fails (a directory, a file, a lookup) and the tool is not reached
Outcomes == {"ok", "fail", "stop"}

\* ToolStep that goes on after a failed tool
ToolStepIgnoresFailure(tool, arg, outcome, next) ==
    /\ apk_log' = IF outcome = "stop" THEN apk_log
                  ELSE Append(apk_log, Event(apk_target, tool, arg, outcome = "ok"))
    /\ IF outcome # "stop"
       THEN apk_pc' = next /\ apk_error' = apk_error
       ELSE apk_pc' = "failed" /\ apk_error' = tool

\* `<tool>.exec()?` with the fallible statements before it: an error returns
\* from build_apks
ToolStep(tool, arg, outcome, next) ==
    /\ apk_log' = IF outcome = "stop" THEN apk_log
                  ELSE Append(apk_log, Event(apk_target, tool, arg, outcome = "ok"))
    /\ IF outcome = "ok"
       THEN apk_pc' = next /\ apk_error' = apk_error
       ELSE apk_pc' = "failed" /\ apk_error' = tool

\* FileCreate that opens the file for appending
FileAppend(old, text) == old \o text

\* File::create followed by one writeln! (lines 458-459, 546-581): the file is
\* truncated, whatever it held, and the text is written
FileCreate(old, text) == text

\* build() calls build_apks with the map build_shared_libraries returned
\* (lines 51-78); a run over the inputs of an earlier run has the same options
BuildApks ==
    /\ run = "finished"
    /\ apk_pc = "idle"
    /\ \E nosign, created \in BOOLEAN :
        /\ first_run.done => (~nosign) = sign
        /\ sign' = ~nosign
        /\ IF created
           THEN apk_pc' = "loop" /\ apk_error' = apk_error
           ELSE apk_pc' = "failed" /\ apk_error' = "create_dir_all"
    /\ UNCHANGED <<manifests, first_run, keystore, apk_target, lib_idx, unaligned_apk, final_apks, target_to_apk_map,
                   apk_log>>

\* the head of the loop (line 84): the next key of the map in the map's own
\* order, or the return of line 386
NextTarget ==
    /\ apk_pc = "loop"
    /\ IF MapKeys \ target_to_apk_map = {}
       THEN /\ apk_pc' = "returned"
            /\ UNCHANGED <<apk_target, lib_idx, unaligned_apk>>
       ELSE /\ apk_pc' = "build_manifest"
            /\ apk_target' \in MapKeys \ target_to_apk_map
            /\ lib_idx' = 1
            /\ unaligned_apk' = <<>>
    /\ UNCHANGED <<manifests, first_run, sign, keystore, final_apks, target_to_apk_map, apk_log, apk_error>>

\* lines 85-101
WriteManifest ==
    /\ apk_pc = "build_manifest"
    /\ \E outcome \in Outcomes, create_ok \in BOOLEAN :
        /\ ToolStep("build_manifest", <<>>, outcome, "aapt_package")
        /\ manifests' =
                IF outcome = "ok"
                THEN [manifests EXCEPT
                        ![apk_target] = FileCreate(@, ManifestText(target_config, apk_target.name))]
                ELSE IF outcome = "fail" /\ create_ok
                THEN [manifests EXCEPT ![apk_target] = FileCreate(@, NoFile)]
                ELSE manifests
    /\ UNCHANGED <<first_run, sign, keystore, apk_target, lib_idx, unaligned_apk, final_apks,
                   target_to_apk_map>>

\* lines 103-219: the sources and resources are laid out, then `aapt package`
\* writes the unaligned package
AaptPackage ==
    /\ apk_pc = "aapt_package"
    /\ \E outcome \in Outcomes : ToolStep("aapt package", <<>>, outcome, "javac")
    /\ UNCHANGED <<manifests, first_run, sign, keystore, apk_target, lib_idx, unaligned_apk, final_apks,
                   target_to_apk_map>>

\* lines 221-258
Javac ==
    /\ apk_pc = "javac"
    /\ \E outcome \in Outcomes : ToolStep("javac", <<>>, outcome, "d8")
    /\ UNCHANGED <<manifests, first_run, sign, keystore, apk_target, lib_idx, unaligned_apk, final_apks,
                   target_to_apk_map>>

\* lines 260-274
D8 ==
    /\ apk_pc = "d8"
    /\ \E outcome \in {"ok", "fail"} : ToolStep("d8", <<>>, outcome, "aapt_add_dex")
    /\ UNCHANGED <<manifests, first_run, sign, keystore, apk_target, lib_idx, unaligned_apk, final_apks,
                   target_to_apk_map>>

\* lines 276-281
AaptAddDex ==
    /\ apk_pc = "aapt_add_dex"
    /\ \E outcome \in {"ok", "fail"} :
        /\ ToolStep("aapt add", <<"classes.dex">>, outcome, "add_libs")
        /\ unaligned_apk' =
                IF outcome = "ok"
                THEN Append(unaligned_apk, PackageEntry(<<"classes.dex">>, <<"classes.dex">>))
                ELSE unaligned_apk
    /\ UNCHANGED <<manifests, first_run, sign, keystore, apk_target, lib_idx, final_apks, target_to_apk_map>>

\* one iteration of the loop of lines 284-305: the library is copied under
\* lib/<abi>/ and added to the package
AddSharedLibrary ==
    /\ apk_pc = "add_libs"
    /\ lib_idx <= Len(LibrariesOf(apk_target))
    /\ LET shared_library == LibrariesOf(apk_target)[lib_idx]
       IN  \E outcome \in Outcomes :
            /\ ToolStep("aapt add", SoPath(shared_library), outcome, "add_libs")
            /\ unaligned_apk' =
                    IF outcome = "ok"
                    THEN Append(unaligned_apk,
                                PackageEntry(SoPath(shared_library), shared_library.path))
                    ELSE unaligned_apk
            /\ lib_idx' = IF outcome = "ok" THEN lib_idx + 1 ELSE lib_idx
    /\ UNCHANGED <<manifests, first_run, sign, keystore, apk_target, final_apks, target_to_apk_map>>

\* Zipalign that does not wait for the end of the loop over the libraries
ZipalignEarly ==
    /\ apk_pc = "add_libs"
    /\ \E outcome \in Outcomes :
        /\ ToolStep("zipalign", <<>>, outcome, "keystore")
        /\ final_apks' =
                IF outcome = "ok"
                THEN { apk \in final_apks : apk.target # apk_target }
                        \cup { [target |-> apk_target, entries |-> unaligned_apk, signed |-> FALSE] }
                ELSE final_apks
    /\ UNCHANGED <<manifests, first_run, sign, keystore, apk_target, lib_idx, unaligned_apk, target_to_apk_map>>

\* lines 307-324: after the last library, zipalign -f writes <name>.apk from the
\* unaligned package
Zipalign ==
    /\ apk_pc = "add_libs"
    /\ lib_idx > Len(LibrariesOf(apk_target))
    /\ \E outcome \in Outcomes :
        /\ ToolStep("zipalign", <<>>, outcome, "keystore")
        /\ final_apks' =
                IF outcome = "ok"
                THEN { apk \in final_apks : apk.target # apk_target }
                        \cup { [target |-> apk_target, entries |-> unaligned_apk, signed |-> FALSE] }
                ELSE final_apks
    /\ UNCHANGED <<manifests, first_run, sign, keystore, apk_target, lib_idx, unaligned_apk, target_to_apk_map>>

\* lines 329-334: the look at the debug keystore; another process may have
\* put it there, this run never removes it
KeystoreCheck ==
    /\ apk_pc = "keystore"
    /\ \E found, exists \in BOOLEAN :
        IF ~found
        THEN /\ apk_pc' = "failed"
             /\ apk_error' = "home_dir"
             /\ keystore' = keystore
        ELSE /\ keystore = "present" => exists
             /\ keystore' = IF exists THEN "present" ELSE "absent"
             /\ apk_pc' = IF exists THEN "sign" ELSE "keytool"
             /\ apk_error' = apk_error
    /\ UNCHANGED <<manifests, first_run, sign, apk_target, lib_idx, unaligned_apk, final_apks, target_to_apk_map,
                   apk_log>>

\* lines 335-363: keytool -genkey writes the keystore
Keytool ==
    /\ apk_pc = "keytool"
    /\ \E outcome \in Outcomes :
        /\ ToolStep("keytool", <<>>, outcome, "sign")
        /\ keystore' = IF outcome = "ok" THEN "present" ELSE keystore
    /\ UNCHANGED <<manifests, first_run, sign, apk_target, lib_idx, unaligned_apk, final_apks, target_to_apk_map>>

\* SignApk that does not look at sign
SignApkAlways ==
    /\ apk_pc = "sign"
    /\ \E outcome \in {"ok", "fail"} :
        /\ ToolStep("apksigner", <<>>, outcome, "loop")
        /\ final_apks' =
                IF outcome = "ok"
                THEN { IF apk.target = apk_target THEN [apk EXCEPT !.signed = TRUE] ELSE apk :
                        apk \in final_apks }
                ELSE final_apks
        /\ target_to_apk_map' =
                IF outcome = "ok" THEN target_to_apk_map \cup {apk_target}
                ELSE target_to_apk_map
    /\ UNCHANGED <<manifests, first_run, sign, keystore, apk_target, lib_idx, unaligned_apk>>

\* lines 366-383: apksigner signs <name>.apk in place when sign is set, then the
\* target is entered in target_to_apk_map
SignApk ==
    /\ apk_pc = "sign"
    /\ IF sign
       THEN \E outcome \in {"ok", "fail"} :
                /\ ToolStep("apksigner", <<>>, outcome, "loop")
                /\ final_apks' =
                        IF outcome = "ok"
                        THEN { IF apk.target = apk_target THEN [apk EXCEPT !.signed = TRUE]
                               ELSE apk : apk \in final_apks }
                        ELSE final_apks
                /\ target_to_apk_map' =
                        IF outcome = "ok" THEN target_to_apk_map \cup {apk_target}
                        ELSE target_to_apk_map
       ELSE /\ apk_pc' = "loop"
            /\ target_to_apk_map' = target_to_apk_map \cup {apk_target}
            /\ UNCHANGED <<apk_log, apk_error, final_apks>>
    /\ UNCHANGED <<manifests, first_run, sign, keystore, apk_target, lib_idx, unaligned_apk>>

\* build is run once more over unchanged inputs, build_shared_libraries
\* returning the same SharedLibraries: what the run before returned and wrote
\* is kept for comparison, the files it wrote stay where they are
Rerun ==
    /\ apk_pc = "returned"
    /\ ~first_run.done
    /\ first_run' = [done |-> TRUE, keys |-> target_to_apk_map, manifests |-> manifests]
    /\ apk_pc' = "idle"
    /\ apk_target' = NoTarget
    /\ lib_idx' = 1
    /\ unaligned_apk' = <<>>
    /\ target_to_apk_map' = {}
    /\ apk_log' = <<>>
    /\ UNCHANGED <<manifests, sign, keystore, final_apks, apk_error>>

(***************************************************************************)
(* Specifications                                                          *)
(***************************************************************************)
vars == <<hookVars, frontVars, glueVars, parseVars, preVars, manifestVars, ndkVars, apkVars>>

\* what a step of the hook, of the glue templater, of the parser leaves alone
besideHook == <<frontVars, glueVars, parseVars, preVars, manifestVars, ndkVars, apkVars>>
besideGlue == <<hookVars, frontVars, parseVars, preVars, manifestVars, ndkVars, apkVars>>
besideParse == <<hookVars, frontVars, glueVars, preVars, manifestVars, ndkVars, apkVars>>
besidePre == <<hookVars, frontVars, glueVars, parseVars, manifestVars, ndkVars, apkVars>>
besideManifest == <<hookVars, frontVars, glueVars, parseVars, preVars, ndkVars, apkVars>>
besideNdk == <<hookVars, frontVars, glueVars, parseVars, preVars, manifestVars, apkVars>>
besideApk == <<frontVars, glueVars, parseVars, preVars, manifestVars, ndkVars>>

\* the glue templater at rest
GlueIdle ==
    /\ glue_pc = "scan"
    /\ file_idx = 0
    /\ line_no = 0
    /\ line = <<>>
    /\ inject_target = None
    /\ res = InjectDefault
    /\ inject = InjectDefault

\* the build at rest
HookIdle ==
    /\ linkage = "static"
    /\ release = FALSE
    /\ nostrip = FALSE
    /\ observe = FALSE
    /\ run = "configuring"
    /\ env = [name \in ToolchainVars |-> Unset]
    /\ HookAtRest

\* no fragment file is being parsed
ParseIdle ==
    /\ parse_pc = "call"
    /\ template_src = <<>>
    /\ injects = NotParsed

\* preprocess_main_activity is not being called
PreIdle ==
    /\ pre_pc = "call"
    /\ java_src = <<>>
    /\ inject_files = <<>>
    /\ activity_src = <<>>

\* no manifest is being written
ManifestIdle ==
    /\ manifest_pc = "call"
    /\ target_config = [ package_name |-> "rust.my-app", package_label |-> "App",
                         version_code |-> "1", version_name |-> "0.1",
                         permissions |-> <<>>, features |-> <<>>, java_services |-> <<>> ]
    /\ manifest_file = <<>>
    /\ manifest_result = "none"

\* no toolchain file is being looked for
NdkIdle ==
    /\ ndk_pc = "call"
    /\ platform = 0
    /\ existing = {}
    /\ ndk_path = NotFound

\* everything but the hook at rest
Idle == FrontIdle /\ GlueIdle /\ ParseIdle /\ PreIdle /\ ManifestIdle /\ NdkIdle /\ ApkInit

Init == HookInit /\ Idle

Next ==
    \/ ConfigureBuildTarget /\ UNCHANGED besideHook
    \/ Exec /\ UNCHANGED besideHook
    \/ ResolveStep /\ UNCHANGED besideHook
    \/ ResolveExit /\ UNCHANGED besideHook
    \/ ExecReturned /\ UNCHANGED besideHook
    \/ NextBuildTarget /\ UNCHANGED besideHook

\* build_shared_libraries with the hook
Spec == Init /\ [][Next]_vars

\* the same, with the hook's loop running on: exec is sequential code, so an
\* iteration or the exit of the loop that can be taken is taken
LiveSpec ==
    /\ Init
    /\ [][Next]_vars
    /\ WF_vars(ResolveStep /\ UNCHANGED besideHook)
    /\ WF_vars(ResolveExit /\ UNCHANGED besideHook)

GlueNext ==
    \/ ScanLine /\ UNCHANGED besideGlue
    \/ MergeFile /\ UNCHANGED besideGlue

\* preprocess_main_activity reading and merging fragment files
GlueSpecInit == HookIdle /\ FrontIdle /\ GlueInit /\ ParseIdle /\ PreIdle /\ ManifestIdle /\ NdkIdle /\ ApkInit

GlueSpec == GlueSpecInit /\ [][GlueNext]_vars

ParseNext == ParseTemplate /\ UNCHANGED besideParse

\* parse_inject_template called on one fragment file
ParseSpecInit == HookIdle /\ FrontIdle /\ GlueIdle /\ ParseInit /\ PreIdle /\ ManifestIdle /\ NdkIdle /\ ApkInit

ParseSpec == ParseSpecInit /\ [][ParseNext]_vars

PreNext == PreprocessMainActivity /\ UNCHANGED besidePre

\* preprocess_main_activity called on one MainActivity.java and a list of
\* fragment files
PreSpecInit == HookIdle /\ FrontIdle /\ GlueIdle /\ ParseIdle /\ PreInit /\ ManifestIdle /\ NdkIdle /\ ApkInit

PreSpec == PreSpecInit /\ [][PreNext]_vars

ManifestNext == BuildManifest /\ UNCHANGED besideManifest

\* build_manifest called for one target configuration
ManifestSpecInit == HookIdle /\ FrontIdle /\ GlueIdle /\ ParseIdle /\ PreIdle /\ ManifestInit /\ NdkIdle /\ ApkInit

ManifestSpec == ManifestSpecInit /\ [][ManifestNext]_vars

NdkNext == FindNdkPath /\ UNCHANGED besideNdk

\* find_ndk_path called for one platform version and one toolchain directory
NdkSpecInit == HookIdle /\ FrontIdle /\ GlueIdle /\ ParseIdle /\ PreIdle /\ ManifestIdle /\ NdkInit /\ ApkInit

NdkSpec == NdkSpecInit /\ [][NdkNext]_vars

\* the state of build when it is called: the build of HookInit, not yet started,
\* with any quad.toml in the package roots
RunInit ==
    /\ BuildInputs
    /\ observe = FALSE
    /\ run = "start"
    /\ HookAtRest
    /\ quad_tomls \in [Packages -> QuadTomlStates]
    /\ java_files = <<>>
    /\ GlueIdle /\ ParseIdle /\ PreIdle /\ ManifestIdle /\ NdkIdle /\ ApkInit

RunNext ==
    \/ CollectJavaFiles /\ UNCHANGED <<glueVars, parseVars, preVars, manifestVars, ndkVars, apkVars>>
    \/ ConfigureBuildTarget /\ UNCHANGED besideHook
    \/ Exec /\ UNCHANGED besideHook
    \/ ResolveStep /\ UNCHANGED besideHook
    \/ ResolveExit /\ UNCHANGED besideHook
    \/ ExecReturned /\ UNCHANGED besideHook
    \/ NextBuildTarget /\ UNCHANGED besideHook

\* build from its first line: collect_java_files, then build_shared_libraries
\* with the hook
RunSpec == RunInit /\ [][RunNext]_vars

\* the target configurations of the builds that are run twice
RerunConfigs ==
    { c \in TargetConfigs :
        \/ c.permissions = <<>> /\ c.features = <<>> /\ c.java_services = <<>>
        \/ /\ c.permissions = << [name |-> "CAMERA", max_sdk_version |-> NoneOpt] >>
           /\ c.features = << [name |-> "gps", required |-> TRUE, version |-> NoneOpt] >>
           /\ c.java_services = <<"Svc">> }

RerunInit ==
    /\ HookInit
    /\ FrontIdle /\ GlueIdle /\ ParseIdle /\ PreIdle /\ NdkIdle /\ ApkInit
    /\ manifest_pc = "call"
    /\ target_config \in RerunConfigs
    /\ manifest_file = <<>>
    /\ manifest_result = "none"

\* a step of build_shared_libraries leaves build_apks alone, and the other way round
HookStep(A) == A /\ UNCHANGED apkVars /\ UNCHANGED besideApk
ApkStep(A) == A /\ UNCHANGED hookVars /\ UNCHANGED besideApk

BuildNext ==
    \/ HookStep(ConfigureBuildTarget)
    \/ HookStep(Exec)
    \/ HookStep(ResolveStep)
    \/ HookStep(ResolveExit)
    \/ HookStep(ExecReturned)
    \/ HookStep(NextBuildTarget)
    \/ ApkStep(BuildApks)
    \/ ApkStep(NextTarget)
    \/ ApkStep(WriteManifest)
    \/ ApkStep(AaptPackage)
    \/ ApkStep(Javac)
    \/ ApkStep(D8)
    \/ ApkStep(AaptAddDex)
    \/ ApkStep(AddSharedLibrary)
    \/ ApkStep(Zipalign)
    \/ ApkStep(KeystoreCheck)
    \/ ApkStep(Keytool)
    \/ ApkStep(SignApk)

\* build (build.rs lines 35-62): build_shared_libraries, then build_apks
BuildSpec == Init /\ [][BuildNext]_vars

\* build_shared_libraries on a dynamic build, with what readelf and the file
\* system show to the hook kept
ResolverInit ==
    /\ BuildInputs
    /\ linkage = "dynamic"
    /\ observe = TRUE
    /\ run = "configuring"
    /\ HookAtRest
    /\ Idle

ResolverSpec == ResolverInit /\ [][Next]_vars

RerunNext ==
    \/ BuildNext
    \/ ApkStep(Rerun)

\* build run twice over the same inputs
RerunSpec == RerunInit /\ [][RerunNext]_vars

(***************************************************************************)
(* Properties of the compile invocation hook                               *)
(***************************************************************************)
\* args[i], args[i + 1] is the pair `--crate-type <kind>`
CratePairAt(args, i, kind) ==
    i < Len(args) /\ args[i] = Arg("--crate-type") /\ args[i + 1] = Arg(kind)

RequestsKind(args, kind) == \E i \in 1..Len(args) : CratePairAt(args, i, kind)

\* a hook invocation has been made and cargo has not yet taken its result
Invoked == call.mode # None

PrimaryKind(target) == target.kind \in {"Bin", "ExampleBin"}

CdylibToRlib(args) ==
    [i \in 1..Len(args) |->
        IF i > 1 /\ CratePairAt(args, i - 1, "cdylib") THEN Arg("rlib") ELSE args[i]]

\* C2 as stated: every invocation other than a Bin/ExampleBin unit in Build mode
\* whose command requests cdylib executes it with cdylib rewritten to rlib and
\* everything else unchanged.
C2_Original ==
    (Invoked /\ ~IsPrimary(call.target, call.mode) /\ RequestsKind(call.args, "cdylib")) =>
        executed = <<Streaming(CdylibToRlib(call.args))>>

\* C2, amended: the rewriting of cdylib to rlib, with every other argument kept in
\* value and position, is what happens to a Build-mode invocation of a unit that
\* is neither Bin nor ExampleBin; a Test-mode invocation executes nothing and an
\* invocation in any other mode executes the command unchanged, cdylib included.
C2_NonPrimaryBuildRewritesCdylib ==
    (Invoked /\ ~IsPrimary(call.target, call.mode) /\ RequestsKind(call.args, "cdylib")) =>
        executed = CASE call.mode = "Build" -> <<Streaming(CdylibToRlib(call.args))>>
                     [] call.mode = "Test"  -> <<>>
                     [] OTHER               -> <<Streaming(call.args)>>

C2_Witness ==
    /\ Invoked /\ call.mode = "Build" /\ call.target.kind = "Lib"
    /\ RequestsKind(call.args, "cdylib")
    /\ Len(call.args) > 2
    /\ pc = "returned" /\ result = "ok"
    /\ Len(executed) = 1 /\ RequestsKind(executed[1].args, "rlib")

\* C3 as stated: an invocation that is not a Bin/ExampleBin unit in Build mode,
\* does not request cdylib and is not a Test-mode compile of a Bin/ExampleBin unit
\* is executed exactly once with the original arguments.
C3_Original ==
    ( /\ Invoked
      /\ ~IsPrimary(call.target, call.mode)
      /\ ~RequestsKind(call.args, "cdylib")
      /\ ~(call.mode = "Test" /\ PrimaryKind(call.target)) ) =>
        executed = <<Streaming(call.args)>>

\* C3, amended: an invocation that is not a Bin/ExampleBin unit in Build mode,
\* does not request cdylib and is not a Test-mode compile of any unit is executed
\* exactly once with the original arguments.
C3_OthersPassThrough ==
    ( /\ Invoked
      /\ ~IsPrimary(call.target, call.mode)
      /\ ~RequestsKind(call.args, "cdylib")
      /\ call.mode # "Test" ) =>
        executed = <<Streaming(call.args)>>

C3_Witness ==
    /\ Invoked /\ call.mode = "Build" /\ call.target.kind = "Lib"
    /\ RequestsKind(call.args, "bin")
    /\ pc = "returned" /\ result = "ok"
    /\ executed = <<Streaming(call.args)>>

\* C4: a hook invocation in Test mode for a Bin or ExampleBin unit executes no
\* command, leaves the SharedLibraryMap as it was and returns Ok.
C4_TestOfPrimarySkipped ==
    [][ (pc = "idle" /\ call'.mode = "Test" /\ PrimaryKind(call'.target)) =>
            /\ executed' = <<>>
            /\ shared_libraries' = shared_libraries
            /\ pc' = "returned"
            /\ result' = "ok" ]_vars

C4_Witness ==
    /\ Invoked /\ call.mode = "Test" /\ PrimaryKind(call.target)
    /\ pc = "returned" /\ result = "ok"
    /\ executed = <<>>

(***************************************************************************)
(* Properties of the shared-library resolver                               *)
(***************************************************************************)
\* the positions of the records of a unit for an architecture and a file name
RecordsOf(unit, abi, filename) ==
    { k \in 1..Len(shared_libraries) :
        /\ shared_libraries[k].target = unit
        /\ shared_libraries[k].abi = abi
        /\ shared_libraries[k].filename = filename }

\* the record is the primary one: its file lies in the build directory
IsPrimaryRecord(rec) == rec.path = BuildPath(rec.abi) \o <<LibFileName(rec.target.name)>>

\* the names the map has as processed
Processed(map) == { n \in DOMAIN map : map[n] }

\* the hook is in, or has just left, the resolver loop of a primary unit
Resolving == pc \in {"resolve", "returned"} /\ libs_search_paths # <<>>

\* C5: no unit ever has two SharedLibrary records with the same architecture and
\* file name, the primary record included.
C5_NoDuplicateRecord ==
    \A i, j \in 1..Len(shared_libraries) :
        ( /\ shared_libraries[i].target = shared_libraries[j].target
          /\ shared_libraries[i].abi = shared_libraries[j].abi
          /\ shared_libraries[i].filename = shared_libraries[j].filename ) => i = j

\* C6: in the resolver loop the name that is looked up is one not yet marked
\* processed and the lookup marks it; no name is looked up twice in one invocation,
\* no platform library is ever looked up or recorded, and the resolver records a
\* name at most once, and only a name it has looked up.
C6_ProcessedNeverResolvedAgain ==
    /\ [][ (lookups' # lookups /\ lookups' # <<>>) =>
            LET n == lookups'[Len(lookups')]
            IN  /\ lookups' = Append(lookups, n)
                /\ n \in Unprocessed(found_dylibs)
                /\ n \in Processed(found_dylibs') ]_vars
    /\ [](Resolving =>
            /\ \A i, j \in 1..Len(lookups) : lookups[i] = lookups[j] => i = j
            /\ \A n \in PlatformLibs :
                /\ n \notin Range(lookups)
                /\ RecordsOf(call.target, Abi, n) = {}
                /\ n \in Processed(found_dylibs)
            /\ \A n \in DylibNames :
                LET emitted == { k \in RecordsOf(call.target, Abi, n) :
                                    ~IsPrimaryRecord(shared_libraries[k]) }
                IN  /\ Cardinality(emitted) <= 1
                    /\ emitted # {} => n \in Range(lookups))

C6_Witness ==
    /\ pc = "returned" /\ result = "ok"
    /\ Len(lookups) = 2
    /\ PlatformLibs \subseteq DOMAIN found_dylibs
    /\ \E k \in 1..Len(shared_libraries) : ~IsPrimaryRecord(shared_libraries[k])

C8_ResolverTerminates ==
    /\ (pc = "resolve") ~> (pc = "returned")
    /\ [][ (pc = "resolve" /\ pc' = "resolve") =>
            /\ DOMAIN found_dylibs \subseteq DOMAIN found_dylibs'
            /\ Processed(found_dylibs) \subseteq Processed(found_dylibs')
            /\ Cardinality(Processed(found_dylibs')) = Cardinality(Processed(found_dylibs)) + 1 ]_vars
    /\ []((pc = "returned" /\ result = "ok" /\ IsPrimary(call.target, call.mode)) =>
            Unprocessed(found_dylibs) = {})

C8_Witness ==
    /\ pc = "returned" /\ result = "ok"
    /\ Len(lookups) = 2
    /\ Len(shared_libraries) = 3
    /\ Processed(found_dylibs) = DylibNames

(***************************************************************************)
(* Properties of the glue templater                                        *)
(***************************************************************************)
\* C9: merging a fragment appends each of its five sections to the section
\* accumulated so far, so that after fragments A and B every section is A's text
\* followed by B's; nothing accumulated is overwritten or reordered, and merging
\* associates.
C9_MergeIsConcatenation ==
    /\ [][ file_idx' = file_idx + 1 =>
            \A f \in Sections : inject'[f] = inject[f] \o res[f] ]_vars
    /\ [](\A c \in {inject, res} : add(add(inject, res), c) = add(inject, add(res, c)))

C9_Witness ==
    /\ file_idx = 2
    /\ inject.imports = <<"x;", "\n", "//", "IMPORTS", "END", "\n", "x;", "\n">>
    /\ inject.on_pause = <<>>

\* the words that open a section, each with the section it names
SectionNamedBy ==
    [ w \in {"IMPORTS", "MAIN_ACTIVITY_BODY", "MAIN_ACTIVITY_ON_CREATE",
             "MAIN_ACTIVITY_ON_RESUME", "MAIN_ACTIVITY_ON_PAUSE"} |->
        CASE w = "IMPORTS"                 -> "imports"
          [] w = "MAIN_ACTIVITY_BODY"      -> "body"
          [] w = "MAIN_ACTIVITY_ON_CREATE" -> "on_create"
          [] w = "MAIN_ACTIVITY_ON_RESUME" -> "on_resume"
          [] OTHER                         -> "on_pause" ]

\* a section-opening marker line: the sigil, then one of the five section names
IsOpeningMarker(l) ==
    StartsWith(l, "//%") /\ \E w \in DOMAIN SectionNamedBy : Contains(l, w)

\* a closing marker line: the sigil and END, and no section name
IsClosingMarker(l) ==
    StartsWith(l, "//%") /\ Contains(l, "END") /\ ~IsOpeningMarker(l)

\* C10: with Scanning the state inject_target = None and InSection(id) the state
\* inject_target = id, an opening marker read in InSection and a closing marker
\* read in Scanning are fatal; otherwise an opening marker leads from Scanning to
\* InSection of the section it names and a closing marker from InSection back to
\* Scanning.  A line that is no marker changes neither.
C10_TemplaterStateMachine ==
    [][ line_no' = line_no + 1 =>
            /\ (IsOpeningMarker(line') /\ inject_target # None) => glue_pc' = "panic"
            /\ (IsClosingMarker(line') /\ inject_target = None) => glue_pc' = "panic"
            /\ (IsOpeningMarker(line') /\ inject_target = None) =>
                    /\ glue_pc' = "scan"
                    /\ \E w \in DOMAIN SectionNamedBy :
                            Contains(line', w) /\ inject_target' = SectionNamedBy[w]
            /\ (IsClosingMarker(line') /\ inject_target # None) =>
                    /\ glue_pc' = "scan"
                    /\ inject_target' = None
            /\ (~IsOpeningMarker(line') /\ ~IsClosingMarker(line')) =>
                    /\ glue_pc' = "scan"
                    /\ inject_target' = inject_target ]_vars

C10_Witness ==
    /\ glue_pc = "panic"
    /\ inject_target # None
    /\ IsOpeningMarker(line)
    /\ line_no = 3

\* a marker line of either kind
IsMarker(l) == IsOpeningMarker(l) \/ IsClosingMarker(l)

\* the section the opening marker l names
OpenedBy(l) == SectionNamedBy[CHOOSE w \in DOMAIN SectionNamedBy : Contains(l, w)]

\* the marker lines of file before line i
MarkersBefore(file, i) == { j \in 1..(i - 1) : IsMarker(file[j]) }

\* the last of a non-empty set of line numbers
Last(S) == CHOOSE j \in S : \A k \in S : k <= j

\* line i of file lies after the opening marker of section s, with no other
\* marker in between
AfterOpeningOf(file, s, i) ==
    /\ MarkersBefore(file, i) # {}
    /\ IsOpeningMarker(file[Last(MarkersBefore(file, i))])
    /\ OpenedBy(file[Last(MarkersBefore(file, i))]) = s

\* a closing marker follows line i of file
ClosedAfter(file, i) == \E k \in (i + 1)..Len(file) : IsClosingMarker(file[k])

\* the non-empty lines of section s of file that are no markers; with closed,
\* only those a closing marker follows
SectionLines(file, s, closed) ==
    { i \in 1..Len(file) :
        /\ file[i] # <<>>
        /\ ~IsMarker(file[i])
        /\ AfterOpeningOf(file, s, i)
        /\ closed => ClosedAfter(file, i) }

\* the lines keep of file from line i on, in input order, each with a line break
RECURSIVE JoinLines(_, _, _)
JoinLines(file, keep, i) ==
    IF i > Len(file)
    THEN <<>>
    ELSE (IF i \in keep THEN file[i] \o <<"\n">> ELSE <<>>) \o JoinLines(file, keep, i + 1)

\* C11: what parse_inject_template returns for a section is the non-empty lines
\* between that section's opening marker and its closing marker, in input
\* order, one line break after each, and nothing else.
C11_ParseYieldsSectionLines ==
    (parse_pc = "done" /\ ~injects.panic) =>
        \A s \in Sections :
            injects.res[s] = JoinLines(template_src, SectionLines(template_src, s, TRUE), 1)

\* C12 as worded: every line read while a section is open, the markers aside,
\* is appended with a line break to that section's accumulator.
C12_Original ==
    [][ (line_no' = line_no + 1 /\ inject_target # None /\ ~IsMarker(line')) =>
            res' = [res EXCEPT ![inject_target] = @ \o line' \o <<"\n">>] ]_vars

\* C12: every non-empty line read while a section is open, the markers aside,
\* is appended with a line break to that section's accumulator and to no other;
\* an empty line is dropped.
C12_OpenSectionAppendsLine ==
    [][ (line_no' = line_no + 1 /\ inject_target # None /\ ~IsMarker(line')) =>
            /\ glue_pc' = "scan"
            /\ line' # <<>> => res' = [res EXCEPT ![inject_target] = @ \o line' \o <<"\n">>]
            /\ line' = <<>> => res' = res ]_vars

C12_Witness ==
    /\ glue_pc = "scan"
    /\ inject_target = "on_pause"
    /\ line_no = 3
    /\ line = <<"x;">>
    /\ res.on_pause = <<"//", "IMPORTS", "END", "\n", "x;", "\n">>

(***************************************************************************)
(* Properties of build_manifest                                            *)
(***************************************************************************)
\* the elements of the manifest text with the given tag, in document order
ElementsOf(text, tag) ==
    SelectSeq(text, LAMBDA piece : piece.kind = "element" /\ piece.tag = tag)

HasAttr(e, attr) == \E i \in 1..Len(e.attrs) : e.attrs[i][1] = attr

AttrOf(e, attr) == e.attrs[CHOOSE i \in 1..Len(e.attrs) : e.attrs[i][1] = attr][2]

\* the feature elements that stand for a configured feature: those with a name
NamedFeatureElements(text) ==
    SelectSeq(ElementsOf(text, "uses-feature"), LAMBDA e : HasAttr(e, "android:name"))

\* the permission elements of text are those of the list perms, in its order
PermissionElementsMatch(text, perms) ==
    LET es == ElementsOf(text, "uses-permission")
    IN  /\ Len(es) = Len(perms)
        /\ \A i \in 1..Len(perms) :
                /\ AttrOf(es[i], "android:name") = perms[i].name
                /\ HasAttr(es[i], "android:maxSdkVersion") <=> perms[i].max_sdk_version # NoneOpt
                /\ perms[i].max_sdk_version # NoneOpt =>
                        AttrOf(es[i], "android:maxSdkVersion") = perms[i].max_sdk_version[1]

\* the feature elements es are those of the list feats, in its order
FeatureElementsMatch(es, feats) ==
    /\ Len(es) = Len(feats)
    /\ \A i \in 1..Len(feats) :
            /\ AttrOf(es[i], "android:name") = feats[i].name
            /\ AttrOf(es[i], "android:required") = BoolText(feats[i].required)
            /\ HasAttr(es[i], "android:version") <=> feats[i].version # NoneOpt

\* C13 as worded: a written manifest has one permission element per configured
\* permission and one feature element per configured feature, in configuration
\* order: for the single permission CAMERA and no feature, one CAMERA element
\* without max-SDK attribute and no feature element at all.
C13_Original ==
    manifest_result = "ok" =>
        /\ PermissionElementsMatch(manifest_file, target_config.permissions)
        /\ FeatureElementsMatch(ElementsOf(manifest_file, "uses-feature"), target_config.features)

\* C13: a written manifest has one permission element per configured
\* permission, in configuration order, with the max-SDK attribute exactly when
\* one is configured; its feature elements are the fixed OpenGL ES one, always
\* there, followed by one named element per configured feature, in
\* configuration order.
C13_ManifestListsPermissionsAndFeatures ==
    manifest_result = "ok" =>
        /\ PermissionElementsMatch(manifest_file, target_config.permissions)
        /\ FeatureElementsMatch(NamedFeatureElements(manifest_file), target_config.features)
        /\ LET es == ElementsOf(manifest_file, "uses-feature")
           IN  /\ Len(es) = Len(target_config.features) + 1
               /\ HasAttr(es[1], "android:glEsVersion")
               /\ ~HasAttr(es[1], "android:name")

C13_Witness ==
    /\ manifest_result = "ok"
    /\ target_config.permissions = << [name |-> "CAMERA", max_sdk_version |-> NoneOpt] >>
    /\ target_config.features = <<>>
    /\ Len(ElementsOf(manifest_file, "uses-permission")) = 1
    /\ Len(ElementsOf(manifest_file, "uses-feature")) = 1

(***************************************************************************)
(* Properties of find_ndk_path                                             *)
(***************************************************************************)
\* the versions in the order of the version-fallback search: p, the lower
\* ones down to 1, the higher ones up to the ceiling
FallbackOrder(p) ==
    [ i \in 1..(IF p < 1 THEN PlatformCeiling - p ELSE PlatformCeiling - 1) |->
        IF p < 1 THEN p + i - 1
        ELSE IF i <= p THEN p + 1 - i
        ELSE i ]

\* C14: find_ndk_path returns the path of the first version that exists in the
\* order p, p - 1, ..., 1, p + 1, ..., up to the ceiling, and fails only when
\* no version of that range has a path.
C14_FallbackSearch ==
    ndk_pc = "done" =>
        LET order == FallbackOrder(platform)
            hits == { i \in 1..Len(order) : order[i] \in existing }
        IN  /\ ndk_path.ok <=> hits # {}
            /\ ndk_path.ok =>
                    ndk_path.version = order[CHOOSE i \in hits : \A j \in hits : i <= j]

(***************************************************************************)
(* Properties of build_apks                                                *)
(***************************************************************************)
\* the primary records of a unit for one build target
PrimaryRecords(unit, abi) ==
    { k \in 1..Len(shared_libraries) :
        /\ shared_libraries[k].target = unit
        /\ shared_libraries[k].abi = abi
        /\ IsPrimaryRecord(shared_libraries[k]) }

\* the entries of a package that hold the primary library of unit for abi
PrimaryEntries(entries, unit, abi) ==
    { k \in 1..Len(entries) :
        /\ entries[k].inner_path = <<"lib", "/", abi, "/", LibFileName(unit.name)>>
        /\ entries[k].from = BuildPath(abi) \o <<LibFileName(unit.name)>> }

\* the invocations of tool for unit
EventsOf(unit, tool) ==
    { k \in 1..Len(apk_log) : apk_log[k].target = unit /\ apk_log[k].tool = tool }

AbiSet == { BuildTargets[i] : i \in 1..Len(BuildTargets) }

\* C15: build_shared_libraries records one primary SharedLibrary per unit and
\* build target, never two, and one whenever the hook has run the unit's
\* command and returned Ok; when build_apks returns Ok every unit of the map
\* has been packaged once and has one entry in the result, and its package
\* holds classes.dex once, then one entry per recorded library under the tag
\* of its build target: the primary library once for each build target it was
\* built for.
C15_EndToEnd ==
    /\ \A unit \in Targets, abi \in AbiSet : Cardinality(PrimaryRecords(unit, abi)) <= 1
    /\ (pc = "returned" /\ result = "ok" /\ IsPrimary(call.target, call.mode) /\ executed # <<>>)
            => Cardinality(PrimaryRecords(call.target, Abi)) = 1
    /\ apk_pc = "returned" =>
        /\ target_to_apk_map = MapKeys
        /\ \A unit \in MapKeys :
            /\ Cardinality(EventsOf(unit, "build_manifest")) = 1
            /\ Cardinality(EventsOf(unit, "zipalign")) = 1
            /\ Cardinality({ apk \in final_apks : apk.target = unit }) = 1
            /\ \A apk \in final_apks :
                apk.target = unit =>
                    /\ Len(apk.entries) = 1 + Len(LibrariesOf(unit))
                    /\ apk.entries[1].inner_path = <<"classes.dex">>
                    /\ \A k \in 2..Len(apk.entries) : apk.entries[k].inner_path[1] = "lib"
                    /\ \A abi \in AbiSet :
                        Cardinality(PrimaryEntries(apk.entries, unit, abi))
                            = Cardinality(PrimaryRecords(unit, abi))

C15_Witness ==
    /\ apk_pc = "returned"
    /\ linkage = "dynamic"
    /\ MapKeys = { [kind |-> "Bin", name |-> "app"] }
    /\ target_to_apk_map = MapKeys
    /\ \E apk \in final_apks :
        /\ Len(apk.entries) = 3
        /\ Cardinality(PrimaryEntries(apk.entries, apk.target, BuildTargets[1])) = 1
        /\ Cardinality(PrimaryEntries(apk.entries, apk.target, BuildTargets[2])) = 1

\* the invocations that have failed
FailedEvents == { k \in 1..Len(apk_log) : ~apk_log[k].ok }

\* the successful invocations of tool for unit
DoneEvents(unit, tool) == { k \in EventsOf(unit, tool) : apk_log[k].ok }

\* the successful `aapt add` of the shared library lib of unit
AddedLibrary(unit, lib) ==
    { k \in DoneEvents(unit, "aapt add") : apk_log[k].arg = SoPath(lib) }

\* every step of the packaging of unit has succeeded
PackagingComplete(unit) ==
    /\ \A tool \in {"build_manifest", "aapt package", "javac", "d8", "zipalign"} :
            DoneEvents(unit, tool) # {}
    /\ \E k \in DoneEvents(unit, "aapt add") : apk_log[k].arg = <<"classes.dex">>
    /\ \A i \in 1..Len(LibrariesOf(unit)) : AddedLibrary(unit, LibrariesOf(unit)[i]) # {}
    /\ sign => DoneEvents(unit, "apksigner") # {}
    /\ \E apk \in final_apks : apk.target = unit /\ apk.signed = sign

\* C16: a tool invocation that fails is the last thing build_apks does: it
\* returns the error and nothing of its state changes afterwards; a unit is in
\* target_to_apk_map only when every step of its packaging, alignment and (when
\* enabled) signing included, has succeeded, and a PackageResult is returned
\* only when no invocation has failed.
C16_FailureStopsPackaging ==
    /\ [](FailedEvents # {} => (apk_pc = "failed" /\ FailedEvents = {Len(apk_log)}))
    /\ [][apk_pc = "failed" => UNCHANGED apkVars]_vars
    /\ [](\A unit \in target_to_apk_map : PackagingComplete(unit))
    /\ [](apk_pc = "returned" => (FailedEvents = {} /\ apk_error = None))

C16_Witness ==
    /\ apk_pc = "failed"
    /\ apk_error = "zipalign"
    /\ FailedEvents # {}
    /\ target_to_apk_map # {}
    /\ apk_target \notin target_to_apk_map
    /\ Len(LibrariesOf(apk_target)) = 1

\* the place of a tool in the order of the steps of one unit
StepRank(event) ==
    CASE event.tool = "build_manifest" -> 1
      [] event.tool = "aapt package"   -> 2
      [] event.tool = "javac"          -> 3
      [] event.tool = "d8"             -> 4
      [] event.tool = "aapt add"       -> IF event.arg = <<"classes.dex">> THEN 5 ELSE 6
      [] event.tool = "zipalign"       -> 7
      [] event.tool = "keytool"        -> 8
      [] OTHER                         -> 9

\* C19: the tools invoked for one unit follow the order manifest, aapt
\* package, javac, d8, classes.dex, shared libraries, zipalign, keytool,
\* apksigner, each at most once but for the libraries, and no step is reached
\* without the ones before it; zipalign starts only after every SharedLibrary
\* of the unit has been added and apksigner only after zipalign has succeeded.
C19_StepOrder ==
    \A j \in 1..Len(apk_log) :
        LET unit == apk_log[j].target
            before == { k \in 1..(j - 1) : apk_log[k].target = unit }
        IN  /\ \A k \in before :
                /\ StepRank(apk_log[k]) <= StepRank(apk_log[j])
                /\ StepRank(apk_log[k]) = StepRank(apk_log[j]) => StepRank(apk_log[j]) = 6
            /\ \A r \in 1..5 :
                r < StepRank(apk_log[j]) => \E k \in before : StepRank(apk_log[k]) = r /\ apk_log[k].ok
            /\ StepRank(apk_log[j]) >= 7 =>
                \A i \in 1..Len(LibrariesOf(unit)) :
                    \E k \in before :
                        /\ StepRank(apk_log[k]) = 6
                        /\ apk_log[k].ok
                        /\ apk_log[k].arg = SoPath(LibrariesOf(unit)[i])
            /\ StepRank(apk_log[j]) >= 8 =>
                \E k \in before : StepRank(apk_log[k]) = 7 /\ apk_log[k].ok

C19_Witness ==
    /\ apk_pc = "returned"
    /\ \E j \in 1..Len(apk_log) :
        /\ apk_log[j].tool = "apksigner"
        /\ Len(LibrariesOf(apk_log[j].target)) = 2
        /\ \E k \in 1..(j - 1) : apk_log[k].tool = "keytool" /\ apk_log[k].target = apk_log[j].target

\* C20: apksigner is invoked only when signing is not disabled, and then for
\* every unit that enters the result; keytool is invoked only right after a
\* look at the debug keystore that found no file, and at most once in a run.
C20_SignAndKeystore ==
    /\ [](\A k \in 1..Len(apk_log) : apk_log[k].tool = "apksigner" => sign)
    /\ [](\A unit \in target_to_apk_map : sign <=> DoneEvents(unit, "apksigner") # {})
    /\ [][ (Len(apk_log') > Len(apk_log) /\ apk_log'[Len(apk_log')].tool = "keytool") =>
            (keystore = "absent" /\ apk_pc = "keytool") ]_vars
    /\ [][ (apk_pc # "keytool" /\ apk_pc' = "keytool") =>
            (apk_pc = "keystore" /\ keystore # "present" /\ keystore' = "absent") ]_vars
    /\ [](Cardinality({ k \in 1..Len(apk_log) : apk_log[k].tool = "keytool" }) <= 1)

C20_Witness ==
    /\ apk_pc = "returned"
    /\ sign
    /\ Cardinality(target_to_apk_map) = 2
    /\ Cardinality({ k \in 1..Len(apk_log) : apk_log[k].tool = "keytool" }) = 1
    /\ Cardinality({ k \in 1..Len(apk_log) : apk_log[k].tool = "apksigner" }) = 2

(***************************************************************************)
(* Properties of the temporary source file and of the source argument      *)
(***************************************************************************)
\* C17: the temporary source file of a primary unit is there while the hook
\* compiles and resolves, and it is gone whenever the hook has returned, with
\* Ok or with any error, and between invocations.
C17_TempFileRemoved ==
    /\ [](pc = "resolve" => tmp_files = {TmpFilePath(call.target)})
    /\ [](pc \in {"idle", "returned"} => tmp_files = {})
    /\ [][(pc' = "returned" /\ IsPrimary(call'.target, call'.mode)) => tmp_files' = {}]_vars

C17_Witness ==
    /\ pc = "returned"
    /\ result = "err"
    /\ error = "list_needed_dylibs"
    /\ IsPrimary(call.target, call.mode)
    /\ executed # <<>>
    /\ TmpFilePath(call.target) \notin tmp_files

\* C18: a primary invocation that has come to the search for the source
\* argument fails with the error naming the unit, executes nothing and records
\* nothing when no argument has the source file's name; otherwise it goes past
\* the search and the command it executes has the first such argument renamed
\* to the temporary file, in its own directory, and the later ones untouched.
C18_SourceArgReplaced ==
    (pc \in {"resolve", "returned"} /\ IsPrimary(call.target, call.mode)) =>
        LET filename == FileName(SrcPath(call.target))
            matches == { i \in 1..Len(call.args) :
                            HasFileName(call.args[i]) /\ FileName(call.args[i]) = filename }
            reached == /\ ~(result = "err" /\ error \in {"resolve", "canonicalize", "tempfile"})
                       /\ ~(result = "ok" /\ executed = <<>>)
        IN  reached =>
                /\ matches = {} =>
                    /\ result = "err"
                    /\ error = "source_arg"
                    /\ executed = <<>>
                    /\ PrimaryRecords(call.target, Abi) = {}
                /\ matches # {} =>
                    LET first == CHOOSE i \in matches : \A j \in matches : i <= j
                    IN  /\ error \notin {"source_arg", "file_name"}
                        /\ executed # <<>> =>
                            /\ executed[1].args[first]
                                    = SetFileName(call.args[first], TmpFileName(filename))
                            /\ \A i \in matches \ {first} :
                                    executed[1].args[i] = call.args[i]

(***************************************************************************)
(* Properties of build_shared_libraries                                    *)
(***************************************************************************)
\* C21: while compile_with_exec runs for a build target, CC, CXX, AR and
\* CMAKE_TOOLCHAIN_FILE hold the values computed for that build target, each of
\* them set in the iteration of that build target: nothing inherited and
\* nothing of an earlier build target is in effect.
C21_ToolchainOfCurrentTarget ==
    (run = "building" \/ pc # "idle") =>
        \A name \in ToolchainVars :
            /\ env[name] = ToolchainValue(name, Abi)
            /\ name \in env_set

C21_Witness ==
    /\ run = "building"
    /\ arch_idx = 2
    /\ pc = "resolve"
    /\ executed # <<>>
    /\ env["CC"] = ToolchainValue("CC", BuildTargets[2])
    /\ env["CC"] # ToolchainValue("CC", BuildTargets[1])

(***************************************************************************)
(* Properties of the loop over a unit's shared libraries                   *)
(***************************************************************************)
\* the successful `aapt add` invocations for unit that add a shared library,
\* in the order they were made
LibraryAdds(unit) ==
    SelectSeq(apk_log, LAMBDA e : /\ e.target = unit
                                  /\ e.tool = "aapt add"
                                  /\ e.ok
                                  /\ e.arg # <<"classes.dex">>)

\* the internal path of a library: lib/<architecture tag>/<filename>
InternalPath(abi, filename) == <<"lib", "/", abi, "/", filename>>

\* the loop over the libraries of unit has come to its end
LibrariesAdded(unit) == EventsOf(unit, "zipalign") # {}

\* C22: once the loop over a unit's shared libraries has ended, `aapt add` has
\* been run once for each SharedLibrary record of the unit, in the order of the
\* records, with the path lib/<architecture tag>/<filename> written with
\* forward slashes, and for nothing else but classes.dex: the set of library
\* paths added is the set of the (architecture, file name) pairs recorded.
C22_LibrariesAddedOncePerRecord ==
    \A unit \in MapKeys :
        LibrariesAdded(unit) =>
            LET adds == LibraryAdds(unit)
                recs == LibrariesOf(unit)
            IN  /\ Len(adds) = Len(recs)
                /\ \A k \in 1..Len(recs) :
                        adds[k].arg = InternalPath(recs[k].abi, recs[k].filename)
                /\ { adds[k].arg : k \in 1..Len(adds) }
                        = { InternalPath(recs[k].abi, recs[k].filename) : k \in 1..Len(recs) }
                /\ \A k \in EventsOf(unit, "aapt add") :
                        \/ apk_log[k].arg = <<"classes.dex">>
                        \/ \E j \in 1..Len(recs) :
                                apk_log[k].arg = InternalPath(recs[j].abi, recs[j].filename)

C22_Witness ==
    \E unit \in MapKeys :
        /\ LibrariesAdded(unit)
        /\ Len(LibrariesOf(unit)) >= 3
        /\ Len(LibraryAdds(unit)) = Len(LibrariesOf(unit))
        /\ \E k \in 1..Len(LibrariesOf(unit)) : ~IsPrimaryRecord(LibrariesOf(unit)[k])
        /\ { LibrariesOf(unit)[k].abi : k \in 1..Len(LibrariesOf(unit)) }
                = { BuildTargets[1], BuildTargets[2] }

(***************************************************************************)
(* Properties of build's collection of the per-package settings            *)
(***************************************************************************)
Malformed == { package \in Packages : quad_tomls[package] = "malformed" }

\* C23: in a run in which some package's quad.toml fails to parse, build never
\* comes to build_shared_libraries: no build target is configured, the hook is
\* never invoked, no command is executed and nothing is recorded.
C23_MalformedSettingsAbortBeforeCompile ==
    Malformed # {} =>
        /\ run \in {"start", "panicked"}
        /\ pc = "idle"
        /\ call = NoCall
        /\ executed = <<>>
        /\ compiled = {}
        /\ shared_libraries = <<>>
        /\ env_set = {}
        /\ java_files = <<>>

C23_Witness ==
    /\ run = "panicked"
    /\ quad_tomls["app"] = "valid"
    /\ quad_tomls["dep"] = "malformed"
    /\ executed = <<>>

(***************************************************************************)
(* Properties of a second run over unchanged inputs                        *)
(***************************************************************************)
\* the units whose manifest the running build_apks has written
ManifestWritten == { unit \in Targets : DoneEvents(unit, "build_manifest") # {} }

InPrimary == pc \in {"resolve", "returned"} /\ IsPrimary(call.target, call.mode)

\* the records of unit for abi, primary and transitive
RecordsFor(unit, abi) ==
    { k \in 1..Len(shared_libraries) :
        shared_libraries[k].target = unit /\ shared_libraries[k].abi = abi }

\* C25: a primary invocation runs the compile command first and the
\* file-names query, the same command with `--print file-names`, second, and
\* nothing else; a SharedLibrary of the unit for the build target is there
\* only when both have been run and neither has failed; when the compile
\* command fails the hook returns that failure, the query is not run and the
\* unit has no record, primary or transitive, for the build target.
C25_CompileThenQueryThenRecord ==
    InPrimary =>
        /\ Len(executed) <= 2
        /\ Len(executed) >= 1 => executed[1].how = "exec_with_streaming"
        /\ Len(executed) = 2 =>
                /\ executed[2].how = "exec_with_output"
                /\ executed[2].args = executed[1].args \o <<Arg("--print"), Arg("file-names")>>
        /\ RecordsFor(call.target, Abi) # {} =>
                /\ Len(executed) = 2
                /\ ~(result = "err" /\ error \in {"exec", "print"})
                /\ PrimaryRecords(call.target, Abi) # {}
        /\ (result = "err" /\ error = "exec") =>
                /\ Len(executed) = 1
                /\ RecordsFor(call.target, Abi) = {}

C25_Witness ==
    /\ InPrimary
    /\ pc = "returned"
    /\ result = "err"
    /\ error = "exec"
    /\ Len(executed) = 1
    /\ RecordsFor(call.target, Abi) = {}

\* the arguments of the executed compile command that come after the
\* original ones
Appended == SubSeq(executed[1].args, Len(call.args) + 1, Len(executed[1].args))

\* the positions of an argument in a list
PositionsOf(args, arg) == { i \in 1..Len(args) : args[i] = arg }

\* C26: the command executed for a primary unit has -Clink-arg=-strip-all
\* among its appended arguments, once, exactly when the build is a release
\* build and nostrip is not given, never in a debug build; it always has
\* -Crelocation-model=pic, once, as its last argument.
C26_StripOnlyInRelease ==
    (InPrimary /\ executed # <<>>) =>
        /\ Cardinality(PositionsOf(Appended, Arg("-Clink-arg=-strip-all")))
                = (IF release /\ ~nostrip THEN 1 ELSE 0)
        /\ ~release => PositionsOf(executed[1].args, Arg("-Clink-arg=-strip-all")) = {}
        /\ PositionsOf(Appended, Arg("-Crelocation-model=pic")) = {Len(Appended)}

C26_Witness ==
    /\ InPrimary
    /\ executed # <<>>
    /\ release
    /\ ~nostrip
    /\ PositionsOf(Appended, Arg("-Clink-arg=-strip-all")) # {}

(***************************************************************************)
(* Properties of the resolver's result                                     *)
(***************************************************************************)
\* the NEEDED entries readelf has reported for a binary
NeededOf(binary) == UNION { p[2] : p \in { q \in needed_seen : q[1] = binary } }

\* the directories that hold a file named name
DirsOf(name) == UNION { p[2] : p \in { q \in dirs_seen : q[1] = name } }

\* name is a file under some search path
OnSearchPath(name) ==
    \E i \in 1..Len(libs_search_paths) : libs_search_paths[i] \in DirsOf(name)

\* the names reached from a set of names in at most n steps through the NEEDED
\* entries of the libraries that are on a search path and are not platform
\* libraries
RECURSIVE ReachedIn(_, _)
ReachedIn(names, n) ==
    IF n = 0 THEN names
    ELSE ReachedIn(names \cup UNION { NeededOf(name) :
                                        name \in { m \in names : m \notin PlatformLibs
                                                                  /\ OnSearchPath(m) } },
                   n - 1)

\* the names reachable from the unit's own library
Reachable == ReachedIn(NeededOf("main"), Cardinality(DylibNames))

\* the records of the running invocation's unit that the resolver has inserted
TransitiveRecords ==
    { k \in RecordsFor(call.target, Abi) : k \notin PrimaryRecords(call.target, Abi) }

\* the loop of the resolver has come to its end
ResolverEnded == InPrimary /\ pc = "returned" /\ result = "ok" /\ libs_search_paths # <<>>

\* C27: when the loop of the resolver has ended, the file names of the
\* transitive records of the unit for the build target are the names that are
\* reachable from the unit's library through NEEDED entries of libraries found
\* on a search path that are not platform libraries, that are not platform
\* libraries themselves and that are on some search path; every name the loop
\* has come across is marked processed; every transitive record has the path
\* of the first search path, in the order of the list, that holds the library.
C27_ResolverComputesClosure ==
    ResolverEnded =>
        /\ { shared_libraries[k].filename : k \in TransitiveRecords }
                = { name \in Reachable : name \notin PlatformLibs /\ OnSearchPath(name) }
        /\ DOMAIN found_dylibs = PlatformLibs \cup Reachable
        /\ \A name \in DOMAIN found_dylibs : found_dylibs[name]
        /\ \A k \in TransitiveRecords :
                \E i \in 1..Len(libs_search_paths) :
                    /\ libs_search_paths[i] \in DirsOf(shared_libraries[k].filename)
                    /\ \A j \in 1..(i - 1) :
                            libs_search_paths[j] \notin DirsOf(shared_libraries[k].filename)
                    /\ shared_libraries[k].path
                            = libs_search_paths[i] \o <<shared_libraries[k].filename>>

C27_Witness ==
    /\ ResolverEnded
    /\ NeededOf("main") = {"libdep.so", "liblog.so"}
    /\ NeededOf("libdep.so") = {"libapp.so"}
    /\ DirsOf("libdep.so") = LibraryDirs(Abi)
    /\ DirsOf("libapp.so") = {}
    /\ { shared_libraries[k].filename : k \in TransitiveRecords } = {"libdep.so"}

(***************************************************************************)
(* Properties of the rewritten command line                                *)
(***************************************************************************)
\* the first token of the arguments the hook injects
InjectedFlags ==
    { "-Clinker=", "-Clinker-flavor=ld", "-Clink-arg=--sysroot=", "-Clink-arg=-L",
      "-Clink-arg=-strip-all", "-Crelocation-model=pic" }

\* the positions of the original command the hook may rewrite: the first
\* argument named like the source file, a `bin` after --crate-type, the
\* argument after --out-dir
MayBeRewritten(args, filename) ==
    { i \in 1..Len(args) :
        \/ /\ HasFileName(args[i]) /\ FileName(args[i]) = filename
           /\ \A j \in 1..(i - 1) : ~(HasFileName(args[j]) /\ FileName(args[j]) = filename)
        \/ i > 1 /\ args[i - 1] = Arg("--crate-type") /\ args[i] = Arg("bin")
        \/ i > 1 /\ args[i - 1] = Arg("--out-dir") }

\* C28: the command executed for a primary unit has every original argument
\* at its place and unchanged but the matched source argument, a `bin` that
\* follows --crate-type and the value that follows --out-dir; everything the
\* hook injects comes after the last original argument, and nothing injected
\* stands among the original ones.
C28_OriginalArgumentsKeepTheirPlace ==
    (InPrimary /\ executed # <<>>) =>
        LET new_args == executed[1].args
            filename == FileName(SrcPath(call.target))
        IN  /\ Len(new_args) > Len(call.args)
            /\ \A i \in 1..Len(call.args) :
                    \/ new_args[i] = call.args[i]
                    \/ /\ i \in MayBeRewritten(call.args, filename)
                       /\ new_args[i][1] \notin InjectedFlags
            /\ \A i \in (Len(call.args) + 1)..Len(new_args) : new_args[i][1] \in InjectedFlags

C28_Witness ==
    /\ InPrimary
    /\ executed # <<>>
    /\ call.args = <<Arg("-L"), <<"dependency=", "d1">>, <<"src", "main.rs">> >>
    /\ executed[1].args[1] = Arg("-L")
    /\ executed[1].args[2] = <<"dependency=", "d1">>
    /\ executed[1].args[3] # <<"src", "main.rs">>
    /\ executed[1].args[4] = <<"-Clinker=", "toolroot", "bin", "ld">>

(***************************************************************************)
(* C29                                                                     *)
(***************************************************************************)
\* the field of Inject a placeholder word stands for
FieldOf(word) == Markers[CHOOSE k \in 1..Len(Markers) : Markers[k].word = word].field

\* one pass over a text: every placeholder of the text becomes the content of
\* its section, and what was put in is left as it is
RECURSIVE InsertVerbatim(_, _)
InsertVerbatim(text, merged) ==
    IF text = <<>>
    THEN <<>>
    ELSE IF Len(text) >= 2 /\ text[1] = "//%" /\ text[2] \in PlaceholderWords
    THEN merged[FieldOf(text[2])] \o InsertVerbatim(SubSeq(text, 3, Len(text)), merged)
    ELSE <<Head(text)>> \o InsertVerbatim(Tail(text), merged)

\* MainActivity.java with the package identifier and the library name put in
Named(src) ==
    Replace(Replace(src, <<"TARGET_PACKAGE_NAME">>, <<"rust.app">>), <<"LIBRARY_NAME">>, <<"app">>)

\* C29: the text preprocess_main_activity returns is MainActivity.java with the
\* package identifier and the library name put in and every section
\* placeholder of it replaced by the accumulated content of its section, the
\* content standing in the result exactly as the fragment files gave it,
\* whatever it holds (the text of another placeholder included)
C29_FragmentTextInsertedVerbatim ==
    pre_pc = "done" =>
        activity_src = InsertVerbatim(Named(java_src), AddInjects(InjectDefault, inject_files).res)

(***************************************************************************)
(* C30                                                                     *)
(***************************************************************************)
\* C30: when build_apks is called with sign unset (nosign), it invokes neither
\* apksigner nor keytool for any unit, so a build that does not sign never
\* creates the debug keystore.
C30_NoSignNoKeytool ==
    ~sign => \A k \in 1..Len(apk_log) : apk_log[k].tool \notin {"apksigner", "keytool"}

====
